---- MODULE Spec2Model ----
(***************************************************************************)
(* A model of the tree-walking Lox interpreter of loxrun: the resolver     *)
(* (resolver.rs), the environments and the evaluator (interpreter.rs),     *)
(* functions (callable.rs) and classes (class.rs).                         *)
(*                                                                         *)
(* The recursive evaluator is modelled as a machine with an explicit       *)
(* stack: `stack` holds one frame per Rust activation that is waiting for  *)
(* a nested call of execute_statement / expression to come back, `ctrl`    *)
(* is what the innermost activation is doing.                              *)
(***************************************************************************)
EXTENDS Integers, Sequences, FiniteSets, TLC

VARIABLES
    prog,         \* the input: <<name of the program, its numeric argument>>, or
                  \* <<"repl", the lines read so far>>
    phase,        \* "resolve" | "run" | "static_error" | "done" | "failed" | "panic"
                  \* | "file" | "io_error" (the driver on a file)
                  \* | "prompt" | "exit" (at the prompt)
    errors,       \* messages of the resolver / the runtime error
    locals,       \* Interpreter.locals: expression id -> depth
    envs,         \* heap of Environment objects (Rc<RefCell<Environment>>)
    environment,  \* Interpreter.environment (index into envs)
    classes,      \* heap of LoxClass objects (Rc<RefCell<LoxClass>>)
    instances,    \* heap of Instance objects (Rc<RefCell<Instance>>)
    output,       \* what has been written to Interpreter.output, one entry per line
    stack,        \* waiting activations, innermost last
    ctrl,         \* what the innermost activation does next
    calls,        \* history: one record per LoxFunction::call made so far
    scanner,      \* a Scanner (scanner.rs) at work on a source text
    parser,       \* a Parser (parser.rs) at work on a token list
    chunk,        \* a Chunk of the bytecode VM (loxvm, chunk.rs)
    written,      \* the calls made on the Chunk so far, each with what it returned
    vm,           \* a VirtualMachine (loxvm, virtualmachine.rs)
    loxvm         \* the process that owns it (loxvm, main.rs): where it is, the
                  \* lines read, what it wrote to stdout and stderr

\* The parts that are also modelled on their own, each with a specification
\* of its own; the interpreter's steps leave them alone.
standalone == <<scanner, parser, chunk, written, vm, loxvm>>

\* The bytecode VM and its process.
machine == <<vm, loxvm>>

\* The state of the interpreter.
interpreter == <<prog, phase, errors, locals, envs, environment, classes, instances,
                 output, stack, ctrl, calls>>

vars == <<prog, phase, errors, locals, envs, environment, classes, instances,
          output, stack, ctrl, calls, scanner, parser, chunk, written, vm, loxvm>>

(***************************************************************************)
(* Bounds of the model.                                                    *)
(***************************************************************************)
\* The numeric input of the parameterised programs ranges over 0..MaxArg.
MaxArg == 2

(***************************************************************************)
(* Finite maps (HashMap) and options.                                      *)
(***************************************************************************)
EmptyMap == [x \in {} |-> 0]

Put(m, key, v) == [x \in (DOMAIN m) \cup {key} |-> IF x = key THEN v ELSE m[x]]

None == << >>

Some(v) == << v >>

IsSome(o) == Len(o) > 0

(***************************************************************************)
(* Values (interpreter.rs, enum Value; callable.rs, enum Callable).        *)
(***************************************************************************)
Nil == [k |-> "nil"]

Bool(b) == [k |-> "bool", b |-> b]

Number(n) == [k |-> "num", n |-> n]

String(s) == [k |-> "str", s |-> s]

Instance(ref) == [k |-> "instance", ref |-> ref]

Class(ref) == [k |-> "class", ref |-> ref]

DynamicFunction == [k |-> "native"]

\* Variant of LoxFunction::new that captures the globals, not the environment
\* of the declaration (for comparison).
LoxFunction_new_global(declaration, closure, is_initializer) ==
    [k |-> "fun", declaration |-> declaration, closure |-> 1,
     is_initializer |-> is_initializer]

\* LoxFunction::new: the declaration, the captured environment, the flag.
LoxFunction_new(declaration, closure, is_initializer) ==
    [k |-> "fun", declaration |-> declaration, closure |-> closure,
     is_initializer |-> is_initializer]

is_true(v) ==
    CASE v.k = "bool" -> v.b
      [] v.k = "nil" -> FALSE
      [] OTHER -> TRUE

\* impl Display for Value: the text that print writes.
Display(v) ==
    CASE v.k = "fun" -> [text |-> "<fn>", name |-> v.declaration.name]
      [] v.k = "class" -> [text |-> "class", name |-> classes[v.ref].name]
      [] v.k = "instance" ->
            [text |-> "instance", name |-> classes[instances[v.ref].class].name]
      [] v.k = "native" -> [text |-> "<native fn>"]
      [] OTHER -> v

(***************************************************************************)
(* f64 arithmetic (the operators of Rust on Value::Number).  A finite      *)
(* number is a fraction in lowest terms, Number(n) when it is whole; the   *)
(* infinities and NaN are values of their own.  Rounding and the sign of   *)
(* zero are not kept.                                                      *)
(***************************************************************************)
NaN == [k |-> "num", nan |-> TRUE]

Infinity(sign) == [k |-> "num", inf |-> sign]

is_nan(v) == "nan" \in DOMAIN v

is_infinite(v) == "inf" \in DOMAIN v

Abs(n) == IF n < 0 THEN -n ELSE n

RECURSIVE gcd(_, _)
gcd(a, b) == IF b = 0 THEN a ELSE gcd(b, a % b)

\* The number n / d, d # 0.
Ratio(n, d) ==
    LET g == gcd(Abs(n), Abs(d))
        top == (IF d < 0 THEN -n ELSE n) \div g
        bottom == Abs(d) \div g
    IN  IF bottom = 1 THEN Number(top) ELSE [k |-> "num", n |-> top, d |-> bottom]

numer(v) == v.n

denom(v) == IF "d" \in DOMAIN v THEN v.d ELSE 1

signum(v) ==
    IF is_infinite(v) THEN v.inf
    ELSE IF v.n > 0 THEN 1 ELSE IF v.n < 0 THEN -1 ELSE 0

\* -a
f64_neg(a) ==
    IF is_nan(a) THEN NaN
    ELSE IF is_infinite(a) THEN Infinity(-a.inf)
    ELSE Ratio(-numer(a), denom(a))

\* a + b
f64_add(a, b) ==
    IF is_nan(a) \/ is_nan(b) THEN NaN
    ELSE IF is_infinite(a) /\ is_infinite(b) THEN (IF a.inf = b.inf THEN a ELSE NaN)
    ELSE IF is_infinite(a) THEN a
    ELSE IF is_infinite(b) THEN b
    ELSE Ratio(numer(a) * denom(b) + numer(b) * denom(a), denom(a) * denom(b))

\* a - b
f64_sub(a, b) == f64_add(a, f64_neg(b))

\* a * b
f64_mul(a, b) ==
    IF is_nan(a) \/ is_nan(b) THEN NaN
    ELSE IF is_infinite(a) \/ is_infinite(b)
    THEN (IF signum(a) * signum(b) = 0 THEN NaN ELSE Infinity(signum(a) * signum(b)))
    ELSE Ratio(numer(a) * numer(b), denom(a) * denom(b))

\* a / b
f64_div(a, b) ==
    IF is_nan(a) \/ is_nan(b) THEN NaN
    ELSE IF is_infinite(a)
    THEN (IF is_infinite(b) THEN NaN
          ELSE Infinity(IF signum(b) < 0 THEN -a.inf ELSE a.inf))
    ELSE IF is_infinite(b) THEN Number(0)
    ELSE IF numer(b) = 0
    THEN (IF numer(a) = 0 THEN NaN ELSE Infinity(signum(a)))
    ELSE Ratio(numer(a) * denom(b), denom(a) * numer(b))

\* a < b: false when one of them is NaN.
f64_lt(a, b) ==
    IF is_nan(a) \/ is_nan(b) THEN FALSE
    ELSE IF is_infinite(a) THEN a.inf = -1 /\ b # a
    ELSE IF is_infinite(b) THEN b.inf = 1
    ELSE numer(a) * denom(b) < numer(b) * denom(a)

\* a > b
f64_gt(a, b) == f64_lt(b, a)

\* a == b: false when one of them is NaN.
f64_eq(a, b) == ~is_nan(a) /\ ~is_nan(b) /\ a = b

\* a <= b
f64_le(a, b) == f64_lt(a, b) \/ f64_eq(a, b)

\* a >= b
f64_ge(a, b) == f64_lt(b, a) \/ f64_eq(a, b)

(***************************************************************************)
(* The AST (expression.rs, stmt.rs).  Options are sequences of length <= 1.*)
(* A token is its lexeme (`name`, `operator`, `method`) and, where the     *)
(* resolver or the evaluator reads it, its line.                           *)
(***************************************************************************)
Literal(id, value) == [t |-> "Literal", id |-> id, value |-> value]

Variable(id, name, line) == [t |-> "Variable", id |-> id, name |-> name, line |-> line]

Assign(id, name, line, value) ==
    [t |-> "Assign", id |-> id, name |-> name, line |-> line, value |-> value]

Binary(id, left, operator, line, right) ==
    [t |-> "Binary", id |-> id, left |-> left, operator |-> operator, line |-> line,
     right |-> right]

\* `line` is the line of call.paren.
Call(id, callee, line, arguments) ==
    [t |-> "Call", id |-> id, callee |-> callee, line |-> line, arguments |-> arguments]

Get(id, object, name, line) ==
    [t |-> "Get", id |-> id, object |-> object, name |-> name, line |-> line]

Set(id, object, name, line, value) ==
    [t |-> "Set", id |-> id, object |-> object, name |-> name, line |-> line,
     value |-> value]

Logical(id, left, operator, right) ==
    [t |-> "Logical", id |-> id, left |-> left, operator |-> operator, right |-> right]

This(id, line) == [t |-> "This", id |-> id, name |-> "this", line |-> line]

\* `line` is the line of the keyword, `method_line` that of the method name.
Super(id, line, method, method_line) ==
    [t |-> "Super", id |-> id, name |-> "super", line |-> line, method |-> method,
     method_line |-> method_line]

ExpressionStmt(expression) == [t |-> "Expression", expression |-> expression]

PrintStmt(expression) == [t |-> "Print", expression |-> expression]

VarStmt(name, line, initializer) ==
    [t |-> "Var", name |-> name, line |-> line, initializer |-> initializer]

BlockStmt(statements) == [t |-> "Block", statements |-> statements]

IfStmt(condition, then_branch, else_branch) ==
    [t |-> "If", condition |-> condition, then_branch |-> then_branch,
     else_branch |-> else_branch]

WhileStmt(condition, body) == [t |-> "While", condition |-> condition, body |-> body]

\* A parameter of a function: the lexeme and the line of its token.
Name(lexeme, line) == [lexeme |-> lexeme, line |-> line]

FunctionStmt(name, line, params, body) ==
    [t |-> "Function", name |-> name, line |-> line, params |-> params, body |-> body]

\* `line` is the line of the keyword.
ReturnStmt(line, value) == [t |-> "Return", line |-> line, value |-> value]

ClassStmt(name, line, superclass, methods) ==
    [t |-> "Class", name |-> name, line |-> line, superclass |-> superclass,
     methods |-> methods]

(***************************************************************************)
(* The scanner (scanner.rs, tokens.rs).  A source text is the sequence of  *)
(* its chars, each a one-character string; NonAscii stands for a char      *)
(* whose UTF-8 encoding has two bytes.  String::len and the slices         *)
(* &source[a..b] count bytes, chars().nth(n) counts chars, as in Rust.  A  *)
(* failed unwrap or slice is the panic: pc = "panicked".                   *)
(***************************************************************************)
NonAscii == "U+00E9"

\* The '\0' that peek and peek_next return at the end of the text.
Nul == "\\0"

Digits == <<"0", "1", "2", "3", "4", "5", "6", "7", "8", "9">>

Letters == {"a", "b", "c", "d", "e", "f", "g", "h", "i", "j", "k", "l", "m", "n",
            "o", "p", "q", "r", "s", "t", "u", "v", "w", "x", "y", "z",
            "A", "B", "C", "D", "E", "F", "G", "H", "I", "J", "K", "L", "M", "N",
            "O", "P", "Q", "R", "S", "T", "U", "V", "W", "X", "Y", "Z"}

\* The chars of a text given as a string of ASCII characters.
chars(text) == [i \in 1..Len(text) |-> SubSeq(text, i, i)]

\* The string made of a sequence of chars.
RECURSIVE to_string(_)
to_string(cs) == IF cs = << >> THEN "" ELSE cs[1] \o to_string(Tail(cs))

len_utf8(c) == IF c = NonAscii THEN 2 ELSE 1

\* The byte offset at which the char with index n (from 0) starts.
RECURSIVE byte_offset(_, _)
byte_offset(source, n) ==
    IF n = 0 THEN 0 ELSE byte_offset(source, n - 1) + len_utf8(source[n])

\* String::len: the number of bytes.
String_len(source) == byte_offset(source, Len(source))

\* chars().nth(n).
chars_nth(source, n) == IF n < Len(source) THEN Some(source[n + 1]) ELSE None

is_char_boundary(source, b) == \E n \in 0..Len(source) : byte_offset(source, n) = b

\* &source[a..b]: the chars between two byte offsets; None when the slice
\* panics (an offset inside a char or past the end, or a > b).
slice(source, a, b) ==
    IF a <= b /\ is_char_boundary(source, a) /\ is_char_boundary(source, b)
    THEN Some(SubSeq(source,
                     (CHOOSE n \in 0..Len(source) : byte_offset(source, n) = a) + 1,
                     CHOOSE n \in 0..Len(source) : byte_offset(source, n) = b))
    ELSE None

Token(token_type, lexeme, literal, line) ==
    [token_type |-> token_type, lexeme |-> lexeme, literal |-> literal, line |-> line]

Scanner_new(source) ==
    [source |-> source, had_error |-> FALSE, tokens |-> << >>,
     start |-> 0, current |-> 0, line |-> 1, pc |-> "new"]

panicked(sc) == [sc EXCEPT !.pc = "panicked"]

is_ascii_digit(c) == \E d \in DOMAIN Digits : Digits[d] = c

is_alpha(c) == c \in Letters \/ c = "_"

is_alpha_numeric(c) == is_alpha(c) \/ is_ascii_digit(c)

is_at_end(sc) == sc.current >= String_len(sc.source)

\* advance: the char returned is chars_nth(source, current) of the state
\* before; None there is the panic of the unwrap.
advance(sc) ==
    IF IsSome(chars_nth(sc.source, sc.current)) THEN [sc EXCEPT !.current = @ + 1]
    ELSE panicked(sc)

\* peek and peek_next: Some(char), or None when the unwrap panics.
peek(sc) == IF is_at_end(sc) THEN Some(Nul) ELSE chars_nth(sc.source, sc.current)

peek_next(sc) ==
    IF sc.current + 1 >= String_len(sc.source) THEN Some(Nul)
    ELSE chars_nth(sc.source, sc.current + 1)

add_token_with_literal(sc, token_type, literal) ==
    IF IsSome(slice(sc.source, sc.start, sc.current))
    THEN [sc EXCEPT !.tokens =
              Append(@, Token(token_type,
                              to_string(slice(sc.source, sc.start, sc.current)[1]),
                              literal, sc.line))]
    ELSE panicked(sc)

add_token(sc, token_type) == add_token_with_literal(sc, token_type, Nil)

\* error and report: the message goes to stdout, had_error is set.
error(sc, message) == [sc EXCEPT !.had_error = TRUE]

\* match_next followed by the add_token of either outcome.
match_next(sc, expected, matched, single) ==
    IF is_at_end(sc) THEN add_token(sc, single)
    ELSE IF ~IsSome(chars_nth(sc.source, sc.current)) THEN panicked(sc)
    ELSE IF chars_nth(sc.source, sc.current)[1] # expected THEN add_token(sc, single)
    ELSE add_token([sc EXCEPT !.current = @ + 1], matched)

\* `while self.peek() != '\n' && !self.is_at_end() { self.advance(); }`
RECURSIVE comment(_)
comment(sc) ==
    IF ~IsSome(peek(sc)) THEN panicked(sc)
    ELSE IF peek(sc)[1] # "\n" /\ ~is_at_end(sc) THEN comment(advance(sc))
    ELSE sc

get_keyword(word) ==
    CASE word = "and" -> Some("And")
      [] word = "class" -> Some("Class")
      [] word = "else" -> Some("Else")
      [] word = "false" -> Some("False")
      [] word = "for" -> Some("For")
      [] word = "fun" -> Some("Fun")
      [] word = "if" -> Some("If")
      [] word = "nil" -> Some("Nil")
      [] word = "or" -> Some("Or")
      [] word = "print" -> Some("Print")
      [] word = "return" -> Some("Return")
      [] word = "super" -> Some("Super")
      [] word = "this" -> Some("This")
      [] word = "true" -> Some("True")
      [] word = "var" -> Some("Var")
      [] word = "while" -> Some("While")
      [] OTHER -> None

\* identifier, after its loop.
identifier_token(sc, text) ==
    IF ~IsSome(text) THEN panicked(sc)
    ELSE IF ~IsSome(get_keyword(to_string(text[1])))
    THEN add_token_with_literal(sc, "Identifier", String(to_string(text[1])))
    ELSE IF to_string(text[1]) = "true" THEN add_token_with_literal(sc, "True", Bool(TRUE))
    ELSE IF to_string(text[1]) = "false"
    THEN add_token_with_literal(sc, "False", Bool(FALSE))
    ELSE add_token_with_literal(sc, get_keyword(to_string(text[1]))[1], Nil)

RECURSIVE identifier(_)
identifier(sc) ==
    IF ~IsSome(peek(sc)) THEN panicked(sc)
    ELSE IF is_alpha_numeric(peek(sc)[1]) THEN identifier(advance(sc))
    ELSE identifier_token(sc, slice(sc.source, sc.start, sc.current))

\* str::parse::<f64> on digits with an optional fraction; a whole number is
\* Number(n), a number with a fraction keeps the digits of the fraction.
RECURSIVE parse_digits(_, _)
parse_digits(cs, acc) ==
    IF cs = << >> \/ cs[1] = "." THEN acc
    ELSE parse_digits(Tail(cs),
                      10 * acc + (CHOOSE d \in DOMAIN Digits : Digits[d] = cs[1]) - 1)

RECURSIVE fraction_of(_)
fraction_of(cs) ==
    IF cs = << >> THEN << >>
    ELSE IF cs[1] = "." THEN Tail(cs) ELSE fraction_of(Tail(cs))

parse_f64(cs) ==
    IF fraction_of(cs) = << >> THEN Number(parse_digits(cs, 0))
    ELSE [k |-> "num", n |-> parse_digits(cs, 0), fraction |-> to_string(fraction_of(cs))]

\* `while self.peek().is_ascii_digit() { self.advance(); }`
RECURSIVE digits(_)
digits(sc) ==
    IF ~IsSome(peek(sc)) THEN panicked(sc)
    ELSE IF is_ascii_digit(peek(sc)[1]) THEN digits(advance(sc))
    ELSE sc

\* number, after the digits and the fraction.
number_token(sc) ==
    IF sc.pc = "panicked" THEN sc
    ELSE IF ~IsSome(slice(sc.source, sc.start, sc.current)) THEN panicked(sc)
    ELSE add_token_with_literal(sc, "Number",
                                parse_f64(slice(sc.source, sc.start, sc.current)[1]))

\* number, after the first run of digits: the fraction.
number_fraction(sc) ==
    IF sc.pc = "panicked" THEN sc
    ELSE IF ~IsSome(peek(sc)) THEN panicked(sc)
    ELSE IF peek(sc)[1] # "." THEN number_token(sc)
    ELSE IF ~IsSome(peek_next(sc)) THEN panicked(sc)
    ELSE IF is_ascii_digit(peek_next(sc)[1]) THEN number_token(digits(advance(sc)))
    ELSE number_token(sc)

number(sc) == number_fraction(digits(sc))

\* string, after its loop: the error at the end of the text, or the closing
\* quote, the value between the quotes and the token.
string_token(sc) ==
    IF sc.pc = "panicked" THEN sc
    ELSE IF ~IsSome(slice(sc.source, sc.start + 1, sc.current - 1)) THEN panicked(sc)
    ELSE add_token_with_literal(
             sc, "String",
             String(to_string(slice(sc.source, sc.start + 1, sc.current - 1)[1])))

RECURSIVE string(_)
string(sc) ==
    IF ~IsSome(peek(sc)) THEN panicked(sc)
    ELSE IF peek(sc)[1] # "\"" /\ ~is_at_end(sc)
    THEN string(advance(IF peek(sc)[1] = "\n" THEN [sc EXCEPT !.line = @ + 1] ELSE sc))
    ELSE IF is_at_end(sc) THEN error(sc, "Unterminated string.")
    ELSE string_token(advance(sc))

\* scan_token, after `let c = self.advance();`.
scan_token_match(sc, c) ==
    CASE c = "(" -> add_token(sc, "LeftParen")
      [] c = ")" -> add_token(sc, "RightParen")
      [] c = "{" -> add_token(sc, "LeftBrace")
      [] c = "}" -> add_token(sc, "RightBrace")
      [] c = "," -> add_token(sc, "Comma")
      [] c = "." -> add_token(sc, "Dot")
      [] c = "-" -> add_token(sc, "Minus")
      [] c = "+" -> add_token(sc, "Plus")
      [] c = ";" -> add_token(sc, "Semicolon")
      [] c = "*" -> add_token(sc, "Star")
      [] c = "!" -> match_next(sc, "=", "BangEqual", "Bang")
      [] c = "=" -> match_next(sc, "=", "EqualEqual", "Equal")
      [] c = "<" -> match_next(sc, "=", "LessEqual", "Less")
      [] c = ">" -> match_next(sc, "=", "GreaterEqual", "Greater")
      [] c = "/" ->
            IF is_at_end(sc) THEN add_token(sc, "Slash")
            ELSE IF ~IsSome(chars_nth(sc.source, sc.current)) THEN panicked(sc)
            ELSE IF chars_nth(sc.source, sc.current)[1] = "/"
            THEN comment([sc EXCEPT !.current = @ + 1])
            ELSE add_token(sc, "Slash")
      [] c \in {" ", "\r", "\t"} -> sc
      [] c = "\n" -> [sc EXCEPT !.line = @ + 1]
      [] c = "\"" -> string(sc)
      [] OTHER ->
            IF is_ascii_digit(c) THEN number(sc)
            ELSE IF is_alpha(c) THEN identifier(sc)
            ELSE error(sc, "Unexpected character.")

\* One turn of the loop of scan_tokens: start = current, then scan_token.
scan_token(sc) ==
    IF ~IsSome(chars_nth(sc.source, sc.current))
    THEN panicked([sc EXCEPT !.start = sc.current])
    ELSE scan_token_match([sc EXCEPT !.start = sc.current, !.current = @ + 1,
                                     !.pc = "scanning"],
                          sc.source[sc.current + 1])

\* The end of scan_tokens: the Eof token, and the list is returned.
scan_tokens_return(sc) ==
    [sc EXCEPT !.tokens = Append(@, Token("Eof", "", Nil, sc.line)),
               !.pc = "returned"]

\* scan_tokens as a whole.
RECURSIVE scan_tokens(_)
scan_tokens(sc) ==
    IF sc.pc = "panicked" THEN sc
    ELSE IF is_at_end(sc) THEN scan_tokens_return(sc)
    ELSE scan_tokens(scan_token(sc))

(***************************************************************************)
(* The parser (parser.rs).  A Parser is [tokens, current, current_id];     *)
(* every parsing function takes the Parser and gives a result: Ok with the *)
(* Parser after it and the node or token (POk), or Err with the message    *)
(* (PErr).  A function that goes on after a `?` is split at that point:    *)
(* the second part takes the result of the first.                          *)
(***************************************************************************)
Unary(id, operator, line, right) ==
    [t |-> "Unary", id |-> id, operator |-> operator, line |-> line, right |-> right]

Grouping(id, expression_) == [t |-> "Grouping", id |-> id, expression |-> expression_]

Parser_new(tokens) == [tokens |-> tokens, current |-> 0, current_id |-> 0]

POk(p, v) == [ok |-> TRUE, p |-> p, v |-> v]

PErr(p, message) == [ok |-> FALSE, p |-> p, message |-> message]

\* self.tokens[self.current]
Parser_peek(p) == p.tokens[p.current + 1]

Parser_is_at_end(p) == Parser_peek(p).token_type = "Eof"

Parser_check(p, token) == ~Parser_is_at_end(p) /\ Parser_peek(p).token_type = token

Parser_advance(p) ==
    IF ~Parser_is_at_end(p) THEN [p EXCEPT !.current = @ + 1] ELSE p

Parser_previous(p) == p.tokens[p.current]

\* match_token: whether one of the token types is next; the caller goes on
\* with Parser_advance(p) when it is.
match_token(p, tokens) == \E token \in tokens : Parser_check(p, token)

\* format!("[line {}] Error at '{}': {}", line, name, message)
error_at(token, message) ==
    "[line " \o ToString(token.line) \o "] Error at '" \o token.lexeme \o "': " \o message

consume(p, token, message) ==
    IF Parser_check(p, token) THEN POk(Parser_advance(p), Parser_peek(p))
    ELSE PErr(p, error_at(Parser_peek(p), message))

\* Variant of next_id that hands out the same id again (for comparison).
next_id_stuck(p) == p

\* next_id: the id handed out is current_id of the Parser before.
next_id(p) == [p EXCEPT !.current_id = @ + 1]

RECURSIVE expression(_)
RECURSIVE assignment(_)
RECURSIVE binary_loop(_, _)
RECURSIVE operand(_, _)
RECURSIVE unary(_)
RECURSIVE call_loop(_)
RECURSIVE arguments_loop(_, _, _)
RECURSIVE primary(_)
RECURSIVE Parser_declaration(_)
RECURSIVE Parser_statement(_)
RECURSIVE block_loop(_, _, _, _)
RECURSIVE methods_loop(_, _, _)
RECURSIVE fun_declaration(_, _)

primary_grouping(close) ==
    IF ~close.ok THEN close
    ELSE POk(next_id(close.p), Grouping(close.p.current_id, close.v))

\* After the expression in parentheses: the closing one; `v` of the result
\* is the expression again.
primary_close(expr) ==
    IF ~expr.ok THEN expr
    ELSE IF Parser_check(expr.p, "RightParen")
    THEN primary_grouping(POk(Parser_advance(expr.p), expr.v))
    ELSE PErr(expr.p, error_at(Parser_peek(expr.p), "Expect ')' after expression."))

primary(p) ==
    CASE Parser_check(p, "False") ->
            POk(next_id(Parser_advance(p)), Literal(p.current_id, Bool(FALSE)))
      [] Parser_check(p, "True") ->
            POk(next_id(Parser_advance(p)), Literal(p.current_id, Bool(TRUE)))
      [] Parser_check(p, "Nil") ->
            POk(next_id(Parser_advance(p)), Literal(p.current_id, Nil))
      [] Parser_check(p, "Number") \/ Parser_check(p, "String") ->
            POk(next_id(Parser_advance(p)), Literal(p.current_id, Parser_peek(p).literal))
      [] Parser_check(p, "LeftParen") -> primary_close(expression(Parser_advance(p)))
      [] Parser_check(p, "This") ->
            POk(next_id(Parser_advance(p)), This(p.current_id, Parser_peek(p).line))
      [] Parser_check(p, "Identifier") ->
            IF Parser_peek(p).literal.k # "str"
            THEN PErr(Parser_advance(p), "Expected identifier")
            ELSE IF Parser_peek(p).literal.s = ""
            THEN PErr(Parser_advance(p), "Empty identifier")
            ELSE POk(next_id(Parser_advance(p)),
                     Variable(p.current_id, Parser_peek(p).lexeme, Parser_peek(p).line))
      [] OTHER -> PErr(p, error_at(Parser_peek(p), "Expect expression."))

\* finish_call, after the closing parenthesis.
finish_call_node(paren, callee, arguments) ==
    IF ~paren.ok THEN paren
    ELSE POk(next_id(paren.p),
             Call(paren.p.current_id, callee, paren.v.line, arguments))

\* finish_call, after one argument.
arguments_next(argument, callee, arguments) ==
    IF ~argument.ok THEN argument
    ELSE IF Parser_check(argument.p, "Comma")
    THEN arguments_loop(Parser_advance(argument.p), callee,
                        Append(arguments, argument.v))
    ELSE finish_call_node(consume(argument.p, "RightParen",
                                  "Expect ')' after arguments."),
                          callee, Append(arguments, argument.v))

arguments_loop(p, callee, arguments) ==
    IF Len(arguments) >= 255
    THEN PErr(p, error_at(Parser_peek(p), "Can't have more than 255 arguments."))
    ELSE arguments_next(expression(p), callee, arguments)

finish_call(p, callee) ==
    IF Parser_check(p, "RightParen")
    THEN finish_call_node(consume(p, "RightParen", "Expect ')' after arguments."),
                          callee, << >>)
    ELSE arguments_loop(p, callee, << >>)

\* call, after the property name.
call_get(expr, name) ==
    IF ~name.ok THEN name
    ELSE call_loop(POk(next_id(name.p),
                       Get(name.p.current_id, expr.v, name.v.lexeme, name.v.line)))

call_loop(expr) ==
    IF ~expr.ok THEN expr
    ELSE IF Parser_check(expr.p, "LeftParen")
    THEN call_loop(finish_call(Parser_advance(expr.p), expr.v))
    ELSE IF Parser_check(expr.p, "Dot")
    THEN call_get(expr, consume(Parser_advance(expr.p), "Identifier",
                                "Expect property name after '.'."))
    ELSE expr

call(p) == call_loop(primary(p))

unary_node(operator, right) ==
    IF ~right.ok THEN right
    ELSE POk(next_id(right.p),
             Unary(right.p.current_id, operator.token_type, operator.line, right.v))

unary(p) ==
    IF match_token(p, {"Bang", "Minus"})
    THEN unary_node(Parser_peek(p), unary(Parser_advance(p)))
    ELSE call(p)

\* The operators of or, and, equality, comparison, term and factor.
operators(level) ==
    CASE level = "or" -> {"Or"}
      [] level = "and" -> {"And"}
      [] level = "equality" -> {"BangEqual", "EqualEqual"}
      [] level = "comparison" -> {"Greater", "GreaterEqual", "Less", "LessEqual"}
      [] level = "term" -> {"Minus", "Plus"}
      [] level = "factor" -> {"Slash", "Star"}

\* One turn of the loop `while self.match_token(..)` of these six functions,
\* after the right operand: the node takes the next id.
binary_node(left, operator, right, level) ==
    IF ~right.ok THEN right
    ELSE binary_loop(
             POk(next_id(right.p),
                 IF level \in {"or", "and"}
                 THEN Logical(right.p.current_id, left.v, operator.token_type, right.v)
                 ELSE Binary(right.p.current_id, left.v, operator.token_type,
                             operator.line, right.v)),
             level)

binary_loop(left, level) ==
    IF ~left.ok THEN left
    ELSE IF match_token(left.p, operators(level))
    THEN binary_node(left, Parser_peek(left.p),
                     operand(level, Parser_advance(left.p)), level)
    ELSE left

factor(p) == binary_loop(unary(p), "factor")

term(p) == binary_loop(factor(p), "term")

comparison(p) == binary_loop(term(p), "comparison")

equality(p) == binary_loop(comparison(p), "equality")

and(p) == binary_loop(equality(p), "and")

or(p) == binary_loop(and(p), "or")

operand(level, p) ==
    CASE level = "or" -> and(p)
      [] level = "and" -> equality(p)
      [] level = "equality" -> comparison(p)
      [] level = "comparison" -> term(p)
      [] level = "term" -> factor(p)
      [] level = "factor" -> unary(p)

\* assignment, after the value: the target becomes an Assign or a Set with a
\* new id; the node of the target itself is dropped.
assignment_node(expr, value) ==
    IF ~value.ok THEN value
    ELSE CASE expr.v.t = "Variable" ->
                 POk(next_id(value.p),
                     Assign(value.p.current_id, expr.v.name, expr.v.line, value.v))
           [] expr.v.t = "Get" ->
                 POk(next_id(value.p),
                     Set(value.p.current_id, expr.v.object, expr.v.name, expr.v.line,
                         value.v))
           [] OTHER ->
                 PErr(value.p,
                      "[line " \o ToString(Parser_previous(value.p).line)
                      \o "] Error at '=': Invalid assignment target.")

assignment_target(expr) ==
    IF ~expr.ok THEN expr
    ELSE IF Parser_check(expr.p, "Equal")
    THEN assignment_node(expr, assignment(Parser_advance(expr.p)))
    ELSE expr

assignment(p) == assignment_target(or(p))

expression(p) == assignment(p)

\* synchronize, after its first advance.
RECURSIVE synchronize_loop(_)
synchronize_loop(p) ==
    IF Parser_is_at_end(p) THEN p
    ELSE IF Parser_previous(p).token_type = "Semicolon" THEN p
    ELSE IF Parser_peek(p).token_type \in {"Class", "Fun", "Var", "For", "If", "While",
                                          "Print", "Return"}
    THEN p
    ELSE synchronize_loop(Parser_advance(p))

\* Variant of synchronize without the loop after the first advance (for
\* comparison).
synchronize_advance_only(p) == Parser_advance(p)

synchronize(p) == synchronize_loop(Parser_advance(p))

\* The `;` that ends a statement, and the statement made of the expression.
expression_end(expr, message, print) ==
    IF ~expr.ok THEN expr
    ELSE IF ~Parser_check(expr.p, "Semicolon")
    THEN PErr(expr.p, error_at(Parser_peek(expr.p), message))
    ELSE POk(Parser_advance(expr.p),
             IF print THEN PrintStmt(expr.v) ELSE ExpressionStmt(expr.v))

expression_statement(p) ==
    expression_end(expression(p), "Expect ';' after expression.", FALSE)

print_statement(p) == expression_end(expression(p), "Expect ';' after value.", TRUE)

\* `Some(self.expression()?)` and the like: the Option of a result.
optional(r) == IF ~r.ok THEN r ELSE POk(r.p, Some(r.v))

\* var_declaration, after the initializer.
var_declaration_end(name, initializer) ==
    IF ~initializer.ok THEN initializer
    ELSE IF ~Parser_check(initializer.p, "Semicolon")
    THEN PErr(initializer.p,
              error_at(Parser_peek(initializer.p),
                       "Expect ';' after variable declaration."))
    ELSE POk(Parser_advance(initializer.p),
             VarStmt(name.v.lexeme, name.v.line, initializer.v))

\* var_declaration, after the name; `v` of an initializer is the Option.
var_declaration_name(name) ==
    IF ~name.ok THEN name
    ELSE IF Parser_check(name.p, "Equal")
    THEN var_declaration_end(name, optional(expression(Parser_advance(name.p))))
    ELSE var_declaration_end(name, POk(name.p, None))

var_declaration(p) ==
    var_declaration_name(consume(p, "Identifier", "Expect variable name."))

\* return_statement, after the value.
return_end(keyword, value) ==
    IF ~value.ok THEN value
    ELSE IF ~Parser_check(value.p, "Semicolon")
    THEN PErr(value.p, error_at(Parser_peek(value.p), "Expect ';' after return value."))
    ELSE POk(Parser_advance(value.p), ReturnStmt(keyword.line, value.v))

return_statement(p) ==
    IF ~Parser_check(p, "Semicolon")
    THEN return_end(Parser_previous(p), optional(expression(p)))
    ELSE return_end(Parser_previous(p), POk(p, None))

if_node(condition, then_branch, else_branch) ==
    IF ~else_branch.ok THEN else_branch
    ELSE POk(else_branch.p, IfStmt(condition, then_branch, else_branch.v))

if_else(condition, then_branch) ==
    IF ~then_branch.ok THEN then_branch
    ELSE IF Parser_check(then_branch.p, "Else")
    THEN if_node(condition, then_branch.v,
                 optional(Parser_statement(Parser_advance(then_branch.p))))
    ELSE if_node(condition, then_branch.v, POk(then_branch.p, None))

if_then(condition) ==
    IF ~condition.ok THEN condition
    ELSE IF ~Parser_check(condition.p, "RightParen")
    THEN PErr(condition.p,
              error_at(Parser_peek(condition.p), "Expect ')' after condition."))
    ELSE if_else(condition.v, Parser_statement(Parser_advance(condition.p)))

if_condition(paren) == IF ~paren.ok THEN paren ELSE if_then(expression(paren.p))

if_statement(p) == if_condition(consume(p, "LeftParen", "Expect '(' after 'if'."))

while_node(condition, body) ==
    IF ~body.ok THEN body ELSE POk(body.p, WhileStmt(condition, body.v))

while_body(condition) ==
    IF ~condition.ok THEN condition
    ELSE IF ~Parser_check(condition.p, "RightParen")
    THEN PErr(condition.p,
              error_at(Parser_peek(condition.p), "Expect ')' after condition."))
    ELSE while_node(condition.v, Parser_statement(Parser_advance(condition.p)))

while_condition(paren) == IF ~paren.ok THEN paren ELSE while_body(expression(paren.p))

while_statement(p) ==
    while_condition(consume(p, "LeftParen", "Expect '(' after 'while'."))

\* Variant of for_with_increment that puts the increment before the body (for
\* comparison).
for_increment_first(increment, body) ==
    IF IsSome(increment)
    THEN BlockStmt(<< ExpressionStmt(increment[1]), body >>)
    ELSE body

\* for_statement, `if let Some(increment) = increment`: the body followed by
\* the increment, in a block of their own.
for_with_increment(increment, body) ==
    IF IsSome(increment)
    THEN BlockStmt(<< body, ExpressionStmt(increment[1]) >>)
    ELSE body

\* for_statement, the loop: a missing condition is the literal true, which
\* takes its id here, after the body was parsed.
for_while(p, condition, body) ==
    IF IsSome(condition) THEN POk(p, WhileStmt(condition[1], body))
    ELSE POk(next_id(p), WhileStmt(Literal(p.current_id, Bool(TRUE)), body))

\* for_statement, the end: the initializer and the loop in a block.
for_block(initializer, loop) ==
    IF IsSome(initializer)
    THEN POk(loop.p, BlockStmt(<< initializer[1], loop.v >>))
    ELSE loop

for_desugar(initializer, condition, increment, body) ==
    IF ~body.ok THEN body
    ELSE for_block(initializer,
                   for_while(body.p, condition, for_with_increment(increment, body.v)))

for_body(initializer, condition, increment) ==
    IF ~increment.ok THEN increment
    ELSE IF ~Parser_check(increment.p, "RightParen")
    THEN PErr(increment.p,
              error_at(Parser_peek(increment.p), "Expect ')' after for clauses."))
    ELSE for_desugar(initializer, condition, increment.v,
                     Parser_statement(Parser_advance(increment.p)))

for_increment(initializer, condition) ==
    IF ~condition.ok THEN condition
    ELSE IF ~Parser_check(condition.p, "Semicolon")
    THEN PErr(condition.p,
              error_at(Parser_peek(condition.p), "Expect ';' after loop condition."))
    ELSE IF ~Parser_check(Parser_advance(condition.p), "RightParen")
    THEN for_body(initializer, condition.v,
                  optional(expression(Parser_advance(condition.p))))
    ELSE for_body(initializer, condition.v, POk(Parser_advance(condition.p), None))

for_condition(initializer) ==
    IF ~initializer.ok THEN initializer
    ELSE IF ~Parser_check(initializer.p, "Semicolon")
    THEN for_increment(initializer.v, optional(expression(initializer.p)))
    ELSE for_increment(initializer.v, POk(initializer.p, None))

for_initializer(paren) ==
    IF ~paren.ok THEN paren
    ELSE IF Parser_check(paren.p, "Var")
    THEN for_condition(optional(var_declaration(Parser_advance(paren.p))))
    ELSE IF Parser_check(paren.p, "Semicolon")
    THEN for_condition(POk(Parser_advance(paren.p), None))
    ELSE for_condition(optional(expression_statement(paren.p)))

for_statement(p) == for_initializer(consume(p, "LeftParen", "Expect '(' after 'for'."))

block_end(brace, statements, has_error, last_error) ==
    IF ~brace.ok THEN brace
    ELSE IF has_error THEN PErr(brace.p, last_error)
    ELSE POk(brace.p, BlockStmt(statements))

\* block, after one declaration of its loop.
block_next(r, statements, has_error, last_error) ==
    IF r.ok THEN block_loop(r.p, Append(statements, r.v), has_error, last_error)
    ELSE block_loop(synchronize(r.p), statements, TRUE, r.message)

block_loop(p, statements, has_error, last_error) ==
    IF ~Parser_is_at_end(p) /\ Parser_peek(p).token_type # "RightBrace"
    THEN block_next(Parser_declaration(p), statements, has_error, last_error)
    ELSE block_end(consume(p, "RightBrace", "Expect '}' after block."),
                   statements, has_error, last_error)

Parser_block(p) == block_loop(p, << >>, FALSE, "")

Parser_statement(p) ==
    CASE Parser_check(p, "For") -> for_statement(Parser_advance(p))
      [] Parser_check(p, "If") -> if_statement(Parser_advance(p))
      [] Parser_check(p, "Print") -> print_statement(Parser_advance(p))
      [] Parser_check(p, "Return") -> return_statement(Parser_advance(p))
      [] Parser_check(p, "While") -> while_statement(Parser_advance(p))
      [] Parser_check(p, "LeftBrace") -> Parser_block(Parser_advance(p))
      [] OTHER -> expression_statement(p)

fun_node(name, params, body) ==
    IF ~body.ok THEN body
    ELSE POk(body.p, FunctionStmt(name.lexeme, name.line, params, body.v.statements))

fun_block(name, params, brace) ==
    IF ~brace.ok THEN brace ELSE fun_node(name, params, Parser_block(brace.p))

fun_open(name, params, paren) ==
    IF ~paren.ok THEN paren
    ELSE fun_block(name, params,
                   consume(paren.p, "LeftBrace", "Expect '{' before function body."))

fun_body(p, name, params) ==
    fun_open(name, params, consume(p, "RightParen", "Expect ')' after parameters."))

RECURSIVE params_loop(_, _, _)
params_next(param, name, params) ==
    IF ~param.ok THEN param
    ELSE IF Parser_check(param.p, "Comma")
    THEN params_loop(Parser_advance(param.p), name,
                     Append(params, Name(param.v.lexeme, param.v.line)))
    ELSE fun_body(param.p, name, Append(params, Name(param.v.lexeme, param.v.line)))

params_loop(p, name, params) ==
    IF Len(params) >= 255
    THEN PErr(p, error_at(Parser_peek(p), "Can't have more than 255 parameters."))
    ELSE params_next(consume(p, "Identifier", "Expect parameter name."), name, params)

fun_paren(name, paren) ==
    IF ~paren.ok THEN paren
    ELSE IF ~Parser_check(paren.p, "RightParen") THEN params_loop(paren.p, name, << >>)
    ELSE fun_body(paren.p, name, << >>)

fun_name(name, kind) ==
    IF ~name.ok THEN name
    ELSE fun_paren(name.v,
                   consume(name.p, "LeftParen", "Expect '(' after " \o kind \o " name."))

fun_declaration(p, kind) ==
    fun_name(consume(p, "Identifier", "Expect " \o kind \o " name."), kind)

class_node(name, methods, brace) ==
    IF ~brace.ok THEN brace
    ELSE POk(brace.p, ClassStmt(name.lexeme, name.line, None, methods))

methods_next(method, name, methods) ==
    IF ~method.ok THEN method
    ELSE methods_loop(method.p, name, Append(methods, method.v))

methods_loop(p, name, methods) ==
    IF ~Parser_check(p, "RightBrace") /\ ~Parser_is_at_end(p)
    THEN methods_next(fun_declaration(p, "method"), name, methods)
    ELSE class_node(name, methods,
                    consume(p, "RightBrace", "Expect '}' after class body."))

class_body(name, brace) ==
    IF ~brace.ok THEN brace ELSE methods_loop(brace.p, name, << >>)

class_name(name) ==
    IF ~name.ok THEN name
    ELSE class_body(name.v,
                    consume(name.p, "LeftBrace", "Expect '{' before class body."))

class_declaration(p) ==
    class_name(consume(p, "Identifier", "Expect class name."))

Parser_declaration(p) ==
    CASE Parser_check(p, "Class") -> class_declaration(Parser_advance(p))
      [] Parser_check(p, "Fun") -> fun_declaration(Parser_advance(p), "function")
      [] Parser_check(p, "Var") -> var_declaration(Parser_advance(p))
      [] OTHER -> Parser_statement(p)

\* The state of one parse: the Parser `p` and the locals of parse; `stderr`
\* holds the lines parse prints, `pc` is "parsing" until parse returns.
Parse_new(tokens) ==
    [p |-> Parser_new(tokens), statements |-> << >>, has_error |-> FALSE,
     stderr |-> << >>, pc |-> "parsing"]

\* One turn of the loop of parse, after the declaration.
parse_next(ps, r) ==
    IF r.ok THEN [ps EXCEPT !.p = r.p, !.statements = Append(@, r.v)]
    ELSE [ps EXCEPT !.p = synchronize(r.p), !.has_error = TRUE,
                    !.stderr = Append(@, r.message)]

parse_turn(ps) == parse_next(ps, Parser_declaration(ps.p))

\* parse, after its loop: Err("Parsing failed with errors.") when has_error,
\* else Ok(statements).
parse_return(ps) == [ps EXCEPT !.pc = "returned"]

RECURSIVE parse(_)
parse(ps) ==
    IF ~Parser_is_at_end(ps.p) THEN parse(parse_turn(ps)) ELSE parse_return(ps)

(***************************************************************************)
(* The Chunk of the bytecode VM (loxvm, chunk.rs): [code, constants,       *)
(* lines].  Indices count from 0 in the code; the sequences here from 1.   *)
(***************************************************************************)
\* `op_code as u8`
OpCode ==
    [Constant |-> 0, Add |-> 1, Subtract |-> 2, Multiply |-> 3, Divide |-> 4,
     Negate |-> 5, Return |-> 6]

Chunk_new == [code |-> << >>, constants |-> << >>, lines |-> << >>]

\* Variant of write that leaves the line out (for comparison).
write_unlined(c, byte, line) == [c EXCEPT !.code = Append(@, byte)]

write(c, byte, line) ==
    [c EXCEPT !.code = Append(@, byte), !.lines = Append(@, line)]

write_op_code(c, op_code, line) ==
    [c EXCEPT !.code = Append(@, OpCode[op_code]), !.lines = Append(@, line)]

\* add_constant: the Chunk after it, and the index it returns.
add_constant(c, value) ==
    [chunk |-> [c EXCEPT !.constants = Append(@, value)],
     returned |-> Len(Append(c.constants, value)) - 1]

(***************************************************************************)
(* The compiler of the bytecode VM (loxvm, parser.rs and compiler.rs): a   *)
(* Parser is [tokens, chunk, current, current_id, panic]; panic is the     *)
(* message of the panic that ended the compilation, or None.  The names    *)
(* that parser.rs shares with the scanner and with the parser of loxrun    *)
(* carry the prefix Compiler_.                                             *)
(***************************************************************************)
\* `opcode as u8` for the opcodes parser.rs and virtualmachine.rs name.
\* chunk.rs as it is here declares seven of them; the fourteen are numbered
\* in the order of the design set.
DesignOpCode ==
    [Constant |-> 0, Nil |-> 1, True |-> 2, False |-> 3, Equal |-> 4, Greater |-> 5,
     Less |-> 6, Add |-> 7, Subtract |-> 8, Multiply |-> 9, Divide |-> 10, Not |-> 11,
     Negate |-> 12, Return |-> 13]

\* enum Precedence, `as u32`.
Precedence ==
    [None |-> 0, Assignment |-> 1, Or |-> 2, And |-> 3, Equality |-> 4,
     Comparison |-> 5, Term |-> 6, Factor |-> 7, Unary |-> 8, Call |-> 9,
     Primary |-> 10]

ParseRule(prefix, infix, precedence) ==
    [prefix |-> prefix, infix |-> infix, precedence |-> Precedence[precedence]]

Compiler_new(tokens) ==
    [tokens |-> tokens, chunk |-> Chunk_new, current |-> 0, current_id |-> 0,
     panic |-> None]

Compiler_panic(p, message) == [p EXCEPT !.panic = Some(message)]

Compiler_is_at_end(p) == p.tokens[p.current + 1].token_type = "Eof"

Compiler_advance(p) ==
    IF ~Compiler_is_at_end(p) THEN [p EXCEPT !.current = @ + 1] ELSE p

\* previous: tokens[current - 1], None when there is no such index (the
\* subtraction or the indexing panics).
Compiler_previous(p) == IF p.current = 0 THEN None ELSE Some(p.tokens[p.current])

Compiler_check(p, token) ==
    IF Compiler_is_at_end(p) THEN FALSE ELSE p.tokens[p.current + 1].token_type = token

\* consume and consume_msg: [ok, p] and the message when it is an Err.
Compiler_consume(p, token, message) ==
    IF Compiler_check(p, token) THEN [ok |-> TRUE, p |-> Compiler_advance(p)]
    ELSE IF Compiler_is_at_end(p)
    THEN [ok |-> FALSE, p |-> p,
          message |-> "[line " \o ToString(p.tokens[p.current + 1].line)
                      \o "] Error at end: " \o message]
    ELSE [ok |-> FALSE, p |-> p,
          message |-> "[line " \o ToString(p.tokens[p.current + 1].line)
                      \o "] Error at '" \o p.tokens[p.current + 1].lexeme \o "': "
                      \o message]

get_rule(token_type) ==
    CASE token_type = "Number" -> ParseRule("number", "none", "None")
      [] token_type \in {"Nil", "True", "False"} -> ParseRule("literal", "none", "None")
      [] token_type = "LeftParen" -> ParseRule("grouping", "none", "None")
      [] token_type = "Minus" -> ParseRule("unary", "binary", "Term")
      [] token_type = "Plus" -> ParseRule("none", "binary", "Term")
      [] token_type \in {"Slash", "Star"} -> ParseRule("none", "binary", "Factor")
      [] token_type = "Bang" -> ParseRule("unary", "none", "None")
      [] token_type \in {"BangEqual", "EqualEqual"} ->
            ParseRule("none", "binary", "Equality")
      [] token_type \in {"Greater", "GreaterEqual", "Less", "LessEqual"} ->
            ParseRule("none", "binary", "Comparison")
      [] OTHER -> ParseRule("none", "none", "None")

\* emit_opcode: Chunk::write_op_code with the line of the previous token.
emit_opcode(p, opcode) ==
    IF IsSome(p.panic) THEN p
    ELSE IF ~IsSome(Compiler_previous(p)) THEN Compiler_panic(p, "index out of bounds")
    ELSE [p EXCEPT !.chunk = write(@, DesignOpCode[opcode], Compiler_previous(p)[1].line)]

emit_opcodes_2(p, opcode, opcode2) == emit_opcode(emit_opcode(p, opcode), opcode2)

\* Variant of emit_return that emits nothing (for comparison).
emit_return_nothing(p) == p

emit_return(p) == emit_opcode(p, "Return")

\* emit_constant, after add_constant returned constant_index.
emit_constant_index(p, added) ==
    IF added.returned > 255
    THEN Compiler_panic(p, "Too many constants in one chunk.")
    ELSE [p EXCEPT !.chunk = write(write(added.chunk, DesignOpCode.Constant,
                                         Compiler_previous(p)[1].line),
                                   added.returned, Compiler_previous(p)[1].line)]

emit_constant(p, value) == emit_constant_index(p, add_constant(p.chunk, value))

\* number: the lexeme of the previous token parsed as an f64.
Compiler_number(p) == emit_constant(p, parse_f64(chars(Compiler_previous(p)[1].lexeme)))

Compiler_literal(p) ==
    CASE Compiler_previous(p)[1].token_type = "Nil" -> emit_opcode(p, "Nil")
      [] Compiler_previous(p)[1].token_type = "True" -> emit_opcode(p, "True")
      [] Compiler_previous(p)[1].token_type = "False" -> emit_opcode(p, "False")
      [] OTHER -> p

\* grouping, after the expression: consume(...).unwrap().
grouping_close(p) ==
    IF IsSome(p.panic) THEN p
    ELSE IF Compiler_consume(p, "RightParen", "Expect ')' after expression.").ok
    THEN Compiler_consume(p, "RightParen", "Expect ')' after expression.").p
    ELSE Compiler_panic(p, "called Result::unwrap() on an Err value")

\* unary, after the operand.
unary_emit(p, operator_token) ==
    CASE operator_token.token_type = "Bang" -> emit_opcode(p, "Not")
      [] operator_token.token_type = "Minus" -> emit_opcode(p, "Negate")
      [] OTHER -> p

\* binary, after the right operand.
binary_emit(p, operator_token) ==
    CASE operator_token.token_type = "BangEqual" -> emit_opcodes_2(p, "Equal", "Not")
      [] operator_token.token_type = "EqualEqual" -> emit_opcode(p, "Equal")
      [] operator_token.token_type = "Greater" -> emit_opcode(p, "Greater")
      [] operator_token.token_type = "GreaterEqual" -> emit_opcodes_2(p, "Less", "Not")
      [] operator_token.token_type = "Less" -> emit_opcode(p, "Less")
      [] operator_token.token_type = "LessEqual" -> emit_opcodes_2(p, "Greater", "Not")
      [] operator_token.token_type = "Plus" -> emit_opcode(p, "Add")
      [] operator_token.token_type = "Minus" -> emit_opcode(p, "Subtract")
      [] operator_token.token_type = "Star" -> emit_opcode(p, "Multiply")
      [] operator_token.token_type = "Slash" -> emit_opcode(p, "Divide")
      [] OTHER -> p

\* The precedence binary gives parse_precedence for the right operand.
binary_precedence(operator_token) == get_rule(operator_token.token_type).precedence

RECURSIVE parse_precedence(_, _)
RECURSIVE infix_loop(_, _)

Compiler_expression(p) == parse_precedence(p, Precedence.Assignment)

Compiler_grouping(p) == grouping_close(Compiler_expression(p))

Compiler_unary(p) ==
    unary_emit(parse_precedence(p, Precedence.Unary), Compiler_previous(p)[1])

Compiler_binary(p) ==
    binary_emit(parse_precedence(p, binary_precedence(Compiler_previous(p)[1])),
                Compiler_previous(p)[1])

\* prefix_rule(self)
prefix_rule(p, prefix) ==
    CASE prefix = "number" -> Compiler_number(p)
      [] prefix = "literal" -> Compiler_literal(p)
      [] prefix = "grouping" -> Compiler_grouping(p)
      [] prefix = "unary" -> Compiler_unary(p)

\* parse_precedence, after advance.
parse_prefix(p, precedence) ==
    IF ~IsSome(Compiler_previous(p)) THEN Compiler_panic(p, "index out of bounds")
    ELSE IF get_rule(Compiler_previous(p)[1].token_type).prefix = "none"
    THEN Compiler_panic(p, "Expected prefix rule")
    ELSE infix_loop(prefix_rule(p, get_rule(Compiler_previous(p)[1].token_type).prefix),
                    precedence)

\* One turn of the loop of parse_precedence, after advance.
parse_infix(p, precedence) ==
    IF get_rule(Compiler_previous(p)[1].token_type).infix = "none"
    THEN Compiler_panic(p, "Expected infix rule")
    ELSE infix_loop(Compiler_binary(p), precedence)

\* `while precedence <= get_rule(tokens[current]).precedence`
infix_loop(p, precedence) ==
    IF IsSome(p.panic) THEN p
    ELSE IF precedence <= get_rule(p.tokens[p.current + 1].token_type).precedence
    THEN parse_infix(Compiler_advance(p), precedence)
    ELSE p

parse_precedence(p, precedence) ==
    IF IsSome(p.panic) THEN p ELSE parse_prefix(Compiler_advance(p), precedence)

\* compiler::compile, given what Scanner::scan_tokens returned.
compile(tokens) == emit_return(Compiler_expression(Compiler_new(tokens)))

(***************************************************************************)
(* The bytecode VM (loxvm, virtualmachine.rs): [chunk, ip, stack], the top *)
(* of the stack last.  One turn of the loop of run gives the VM after it,  *)
(* what it wrote to the output and how it went on:                         *)
(*   "loop"   the next turn follows                                        *)
(*   "Ok"     run returned Ok(InterpretResult::Ok)                         *)
(*   "Err"    run returned Err(message)                                    *)
(*   "panic"  the process was aborted with the message                     *)
(* The trace that test and debug_trace builds write is left out.           *)
(***************************************************************************)
VirtualMachine_new == [chunk |-> Chunk_new, ip |-> 0, stack |-> << >>]

UnwrapNone == "called Option::unwrap() on a None value"

OutOfBounds == "index out of bounds"

NotANumber == "Operand must be a number."

Turn(m, how, written_, message) ==
    [vm |-> m, how |-> how, written |-> written_, message |-> message]

Loop(m) == Turn(m, "loop", << >>, "")

Panic(m, message) == Turn(m, "panic", << >>, message)

VM_push(m, value) == [m EXCEPT !.stack = Append(@, value)]

\* The stack after Vec::pop.
VM_popped(m) == [m EXCEPT !.stack = SubSeq(@, 1, Len(@) - 1)]

VM_top(m) == m.stack[Len(m.stack)]

\* read_byte, given that ip is an index of code.
read_byte(m) == [vm |-> [m EXCEPT !.ip = @ + 1], byte |-> m.chunk.code[m.ip + 1]]

\* read_constant and the push of the Constant arm.
read_constant(m) ==
    IF m.ip >= Len(m.chunk.code) THEN Panic(m, OutOfBounds)
    ELSE IF read_byte(m).byte >= Len(m.chunk.constants)
    THEN Panic(read_byte(m).vm, OutOfBounds)
    ELSE Loop(VM_push(read_byte(m).vm, m.chunk.constants[read_byte(m).byte + 1]))

\* The closures that run hands to binary_op, by the opcode of the arm.
binary_closure(op, a, b) ==
    CASE op = "Greater" -> Bool(f64_gt(a, b))
      [] op = "Less" -> Bool(f64_lt(a, b))
      [] op = "Add" -> f64_add(a, b)
      [] op = "Subtract" -> f64_sub(a, b)
      [] op = "Multiply" -> f64_mul(a, b)
      [] op = "Divide" -> f64_div(a, b)

\* Variant of binary_op that takes the value popped first as the left
\* operand (for comparison).
binary_op_swapped(m, op) ==
    IF Len(m.stack) < 2 THEN Panic(m, UnwrapNone)
    ELSE IF VM_top(m).k # "num" \/ VM_top(VM_popped(m)).k # "num"
    THEN Panic(m, NotANumber)
    ELSE Loop(VM_push(VM_popped(VM_popped(m)),
                      binary_closure(op, VM_top(m), VM_top(VM_popped(m)))))

\* binary_op: b is popped first, then a; op names the closure.
binary_op(m, op) ==
    IF Len(m.stack) < 2 THEN Panic(m, UnwrapNone)
    ELSE IF VM_top(m).k # "num" \/ VM_top(VM_popped(m)).k # "num"
    THEN Panic(m, NotANumber)
    ELSE Loop(VM_push(VM_popped(VM_popped(m)),
                      binary_closure(op, VM_top(VM_popped(m)), VM_top(m))))

unary_op(m) ==
    IF Len(m.stack) < 1 THEN Panic(m, UnwrapNone)
    ELSE IF VM_top(m).k # "num" THEN Panic(m, NotANumber)
    ELSE Loop(VM_push(VM_popped(m), f64_neg(VM_top(m))))

is_falsey(value) ==
    CASE value.k = "nil" -> TRUE
      [] value.k = "bool" -> ~value.b
      [] OTHER -> FALSE

not_op(m) ==
    IF Len(m.stack) < 1 THEN Panic(m, UnwrapNone)
    ELSE Loop(VM_push(VM_popped(m), Bool(is_falsey(VM_top(m)))))

valuesEqual(a, b) ==
    CASE a.k = "nil" /\ b.k = "nil" -> TRUE
      [] a.k = "bool" /\ b.k = "bool" -> a.b = b.b
      [] a.k = "num" /\ b.k = "num" -> f64_eq(a, b)
      [] OTHER -> FALSE

equal_op(m) ==
    IF Len(m.stack) < 2 THEN Panic(m, UnwrapNone)
    ELSE Loop(VM_push(VM_popped(VM_popped(m)),
                      Bool(valuesEqual(VM_top(VM_popped(m)), VM_top(m)))))

\* Variant of the Return arm that goes on with the next instruction (for
\* comparison).
return_op_goes_on(m) ==
    IF m.stack = << >> THEN Loop(m)
    ELSE Turn(VM_popped(m), "loop", << VM_top(m) >>, "")

\* The Return arm: stack.pop().map_or((), writeln!) and return Ok.
return_op(m) ==
    IF m.stack = << >> THEN Turn(m, "Ok", << >>, "")
    ELSE Turn(VM_popped(m), "Ok", << VM_top(m) >>, "")

\* The arm of the match for the instruction read.
dispatch(m, instruction) ==
    CASE instruction = DesignOpCode.Return -> return_op(m)
      [] instruction = DesignOpCode.Nil -> Loop(VM_push(m, Nil))
      [] instruction = DesignOpCode.True -> Loop(VM_push(m, Bool(TRUE)))
      [] instruction = DesignOpCode.False -> Loop(VM_push(m, Bool(FALSE)))
      [] instruction = DesignOpCode.Equal -> equal_op(m)
      [] instruction = DesignOpCode.Greater -> binary_op(m, "Greater")
      [] instruction = DesignOpCode.Less -> binary_op(m, "Less")
      [] instruction = DesignOpCode.Add -> binary_op(m, "Add")
      [] instruction = DesignOpCode.Subtract -> binary_op(m, "Subtract")
      [] instruction = DesignOpCode.Multiply -> binary_op(m, "Multiply")
      [] instruction = DesignOpCode.Divide -> binary_op(m, "Divide")
      [] instruction = DesignOpCode.Not -> not_op(m)
      [] instruction = DesignOpCode.Negate -> unary_op(m)
      [] instruction = DesignOpCode.Constant -> read_constant(m)
      [] OTHER -> Turn(m, "Err", << >>, "Unknown opcode " \o ToString(instruction))

\* One turn of `while self.ip < self.chunk.code.len()`, or the Ok after it.
VM_run_turn(m) ==
    IF m.ip < Len(m.chunk.code) THEN dispatch(read_byte(m).vm, read_byte(m).byte)
    ELSE Turn(m, "Ok", << >>, "")

\* interpret, up to the call of run: the chunk of the source and ip = 0.
interpret(m, compiled) == [m EXCEPT !.chunk = compiled.chunk, !.ip = 0]

\* The process when no VM runs.
NoProcess ==
    [pc |-> "none", read |-> 0, source |-> "", stdout |-> << >>, stderr |-> << >>,
     trace |-> << >>, results |-> << >>, panic |-> None]

(***************************************************************************)
(* Environment (interpreter.rs).  An environment is a heap cell            *)
(* [enclosing, values]; enclosing = 0 stands for None.  `h` is the heap.   *)
(***************************************************************************)
Environment_new == [enclosing |-> 0, values |-> EmptyMap]

Environment_with_enclosing(enclosing) == [enclosing |-> enclosing, values |-> EmptyMap]

\* Variant of Environment::define that inserts into the enclosing scope when
\* there is one (for comparison).
Environment_define_enclosing(h, e, name, value) ==
    LET t == IF h[e].enclosing = 0 THEN e ELSE h[e].enclosing
    IN  [h EXCEPT ![t].values = Put(@, name, value)]

\* Environment::define on cell e: unconditional insert.
Environment_define(h, e, name, value) == [h EXCEPT ![e].values = Put(@, name, value)]

\* Environment::get: this scope, then the enclosing chain.
RECURSIVE Environment_get(_, _, _)
Environment_get(h, e, name) ==
    IF name \in DOMAIN h[e].values THEN Some(h[e].values[name])
    ELSE IF h[e].enclosing # 0 THEN Environment_get(h, h[e].enclosing, name)
    ELSE None

\* The environments from e outwards along `enclosing`, e first.
RECURSIVE EnvironmentChain(_, _)
EnvironmentChain(h, e) ==
    IF e = 0 THEN << >> ELSE << e >> \o EnvironmentChain(h, h[e].enclosing)

\* Variant of Environment::assign that defines a name no scope has in the
\* outermost scope (for comparison).
Environment_assign_implicit(h, e, name, value) ==
    LET chain == EnvironmentChain(h, e)
        having == {i \in 1..Len(chain) : name \in DOMAIN h[chain[i]].values}
        target == IF having = {} THEN chain[Len(chain)]
                  ELSE chain[CHOOSE i \in having : \A j \in having : i <= j]
    IN  [ok |-> TRUE, h |-> [h EXCEPT ![target].values = Put(@, name, value)]]

\* Environment::assign: update the first scope of the chain that has the name.
\* The result is the new heap and whether the name was found.
RECURSIVE Environment_assign(_, _, _, _)
Environment_assign(h, e, name, value) ==
    IF name \in DOMAIN h[e].values
    THEN [ok |-> TRUE, h |-> [h EXCEPT ![e].values = Put(@, name, value)]]
    ELSE IF h[e].enclosing # 0 THEN Environment_assign(h, h[e].enclosing, name, value)
    ELSE [ok |-> FALSE, h |-> h]

\* The loop `for _ in 1..depth` of get_at / assign_at, started from
\* self.enclosing, with `steps` iterations left: the cell reached (0 for
\* None), and whether an iteration found None (the early return).
RECURSIVE WalkEnclosing(_, _, _)
WalkEnclosing(h, environment_, steps) ==
    IF steps = 0 THEN [reached |-> environment_, early |-> FALSE]
    ELSE IF environment_ = 0 THEN [reached |-> 0, early |-> TRUE]
    ELSE WalkEnclosing(h, h[environment_].enclosing, steps - 1)

\* Environment::get_at.  An iteration that finds None returns None; after the
\* loop `environment.unwrap()` panics on None.
Environment_get_at(h, e, name, depth) ==
    IF depth = 0 THEN [panic |-> FALSE, value |-> Environment_get(h, e, name)]
    ELSE LET w == WalkEnclosing(h, h[e].enclosing, depth - 1)
         IN  IF w.early THEN [panic |-> FALSE, value |-> None]
             ELSE IF w.reached = 0 THEN [panic |-> TRUE, value |-> None]
             ELSE [panic |-> FALSE, value |-> Environment_get(h, w.reached, name)]

\* Environment::assign_at.
Environment_assign_at(h, e, name, value, depth) ==
    IF depth = 0 THEN Environment_assign(h, e, name, value)
    ELSE LET w == WalkEnclosing(h, h[e].enclosing, depth - 1)
         IN  IF w.reached = 0 THEN [ok |-> FALSE, h |-> h]
             ELSE Environment_assign(h, w.reached, name, value)

(***************************************************************************)
(* Resolver (resolver.rs).  The resolver state is a record                 *)
(*   [scopes, locals, current_function, current_class];                    *)
(* every resolve_* operator returns [st, err]: the state it leaves and the *)
(* messages of the Err it returns (<< >> for Ok).  A `?` in the code       *)
(* returns at once, leaving the state as it is at that point.              *)
(***************************************************************************)
Resolver_new(locals_) ==
    [scopes |-> << >>, locals |-> locals_,
     current_function |-> "None", current_class |-> "None"]

Ok(st) == [st |-> st, err |-> << >>]

\* make_resolve_error: Err with "[line N] Error at 'lexeme': message".
make_resolve_error(st, lexeme, line, message) ==
    [st |-> st,
     err |-> << "[line " \o ToString(line) \o "] Error at '" \o lexeme \o "': "
                \o message >>]

IsOk(r) == r.err = << >>

begin_scope(st) == [st EXCEPT !.scopes = Append(@, EmptyMap)]

end_scope(st) == [st EXCEPT !.scopes = SubSeq(@, 1, Len(@) - 1)]

\* Insert into the innermost scope (scopes.last_mut().unwrap().insert).
scope_insert(st, name, defined) ==
    [st EXCEPT !.scopes[Len(st.scopes)] = Put(@, name, defined)]

declare(st, name, line) ==
    IF Len(st.scopes) = 0 THEN Ok(st)
    ELSE IF name \in DOMAIN st.scopes[Len(st.scopes)]
         THEN make_resolve_error(st, name, line,
                                 "Already a variable with this name in this scope.")
         ELSE Ok(scope_insert(st, name, FALSE))

define(st, name, line) ==
    IF Len(st.scopes) = 0 THEN Ok(st)
    ELSE IF name \in DOMAIN st.scopes[Len(st.scopes)]
         THEN Ok(scope_insert(st, name, TRUE))
         ELSE make_resolve_error(st, name, line, "Variable not declared in this scope.")

\* Interpreter::resolve: every expression kind but Literal is recorded.
Interpreter_resolve(locals_, expr, depth) ==
    IF expr.t = "Literal" THEN locals_ ELSE Put(locals_, expr.id, depth)

\* resolve_local: the innermost scope that has the name decides the depth;
\* no scope has it: nothing is recorded (a global).
resolve_local(st, expr, name) ==
    LET found == {i \in 1..Len(st.scopes) : name \in DOMAIN st.scopes[i]}
    IN  IF found = {} THEN Ok(st)
        ELSE LET i == CHOOSE j \in found : \A m \in found : m <= j
             IN  Ok([st EXCEPT !.locals =
                        Interpreter_resolve(@, expr, Len(st.scopes) - i)])

RECURSIVE resolve_expr(_, _)
RECURSIVE resolve_exprs(_, _, _)
RECURSIVE resolve_stmt(_, _)
RECURSIVE resolve_stmts_from(_, _, _, _)
RECURSIVE resolve_function(_, _, _, _)
RECURSIVE resolve_methods(_, _, _)

\* The loop over call.arguments: stops at the first error.
resolve_exprs(st, exprs, i) ==
    IF i > Len(exprs) THEN Ok(st)
    ELSE LET r == resolve_expr(st, exprs[i])
         IN  IF IsOk(r) THEN resolve_exprs(r.st, exprs, i + 1) ELSE r

resolve_expr(st, expr) ==
    CASE expr.t = "Variable" ->
            IF /\ Len(st.scopes) > 0
               /\ expr.name \in DOMAIN st.scopes[Len(st.scopes)]
               /\ st.scopes[Len(st.scopes)][expr.name] = FALSE
            THEN make_resolve_error(st, expr.name, expr.line,
                                    "Can't read local variable in its own initializer.")
            ELSE resolve_local(st, expr, expr.name)
      [] expr.t = "Assign" ->
            LET r == resolve_expr(st, expr.value)
            IN  IF IsOk(r) THEN resolve_local(r.st, expr, expr.name) ELSE r
      [] expr.t = "Binary" ->
            LET r == resolve_expr(st, expr.left)
            IN  IF IsOk(r) THEN resolve_expr(r.st, expr.right) ELSE r
      [] expr.t = "Call" ->
            LET r == resolve_expr(st, expr.callee)
            IN  IF IsOk(r) THEN resolve_exprs(r.st, expr.arguments, 1) ELSE r
      [] expr.t = "Get" -> resolve_expr(st, expr.object)
      [] expr.t = "Literal" -> Ok(st)
      [] expr.t = "Logical" ->
            LET r == resolve_expr(st, expr.left)
            IN  IF IsOk(r) THEN resolve_expr(r.st, expr.right) ELSE r
      [] expr.t = "Set" ->
            LET r == resolve_expr(st, expr.value)
            IN  IF IsOk(r) THEN resolve_expr(r.st, expr.object) ELSE r
      [] expr.t = "Super" ->
            IF st.current_class = "None"
            THEN make_resolve_error(st, "super", expr.line,
                                    "Can't use 'super' outside of a class.")
            ELSE IF st.current_class # "Subclass"
            THEN make_resolve_error(st, "super", expr.line,
                                    "Can't use 'super' in a class with no superclass.")
            ELSE resolve_local(st, expr, "super")
      [] expr.t = "This" ->
            IF st.current_class = "None"
            THEN make_resolve_error(st, "this", expr.line,
                                    "Can't use 'this' outside of a class.")
            ELSE resolve_local(st, expr, "this")

\* resolve_stmts: every statement is resolved, "\n" and the message of each
\* failed one are appended to error.message, and the result is Err when
\* that message is not empty.
resolve_stmts_from(st, statements, i, message) ==
    IF i > Len(statements)
    THEN IF message = "" THEN Ok(st) ELSE [st |-> st, err |-> << message >>]
    ELSE LET r == resolve_stmt(st, statements[i])
         IN  IF IsOk(r) THEN resolve_stmts_from(r.st, statements, i + 1, message)
             ELSE resolve_stmts_from(r.st, statements, i + 1,
                                     message \o "\n" \o r.err[1])

resolve_stmts(st, statements) == resolve_stmts_from(st, statements, 1, "")

resolve_block(st, block) ==
    LET r == resolve_stmts(begin_scope(st), block.statements)
    IN  IF IsOk(r) THEN Ok(end_scope(r.st)) ELSE r

\* The loop `for param in params { declare?; define?; }`.
RECURSIVE resolve_params(_, _, _)
resolve_params(st, params, i) ==
    IF i > Len(params) THEN Ok(st)
    ELSE LET d == declare(st, params[i].lexeme, params[i].line)
         IN  IF ~IsOk(d) THEN d
             ELSE LET f == define(d.st, params[i].lexeme, params[i].line)
                  IN  IF ~IsOk(f) THEN f ELSE resolve_params(f.st, params, i + 1)

resolve_function(st, params, body, function_type) ==
    LET enclosing_function == st.current_function
        s1 == begin_scope([st EXCEPT !.current_function = function_type])
        p == resolve_params(s1, params, 1)
    IN  IF ~IsOk(p) THEN p
        ELSE LET b == resolve_stmts(p.st, body)
             IN  IF ~IsOk(b) THEN b
                 ELSE Ok([end_scope(b.st) EXCEPT
                            !.current_function = enclosing_function])

\* The loop over stmt.methods of a class.
resolve_methods(st, methods, i) ==
    IF i > Len(methods) THEN Ok(st)
    ELSE LET declaration == IF methods[i].name = "init" THEN "Initializer" ELSE "Method"
             r == resolve_function(st, methods[i].params, methods[i].body, declaration)
         IN  IF IsOk(r) THEN resolve_methods(r.st, methods, i + 1) ELSE r

\* Stmt::Class, in the order of the code; each operator takes the result of
\* the step before it and returns at once when that step failed (`?`).
\* After the methods: both scopes are left and current_class is restored.
resolve_class_end(m, stmt, enclosing_class) ==
    IF ~IsOk(m) THEN m
    ELSE Ok([(IF IsSome(stmt.superclass) THEN end_scope(end_scope(m.st))
              ELSE end_scope(m.st))
             EXCEPT !.current_class = enclosing_class])

\* After the superclass expression: a scope with "super" when there is a
\* superclass, a scope with "this", then the methods.
resolve_class_methods(sup, stmt, enclosing_class) ==
    IF ~IsOk(sup) THEN sup
    ELSE resolve_class_end(
             resolve_methods(
                 scope_insert(begin_scope(IF IsSome(stmt.superclass)
                                          THEN scope_insert(begin_scope(sup.st),
                                                            "super", TRUE)
                                          ELSE sup.st),
                              "this", TRUE),
                 stmt.methods, 1),
             stmt, enclosing_class)

\* Variant of resolve_class_superclass that does not compare the two names.
resolve_class_superclass_unchecked(f, stmt, enclosing_class) ==
    IF ~IsOk(f) THEN f
    ELSE resolve_class_methods(
             IF IsSome(stmt.superclass)
             THEN resolve_expr([f.st EXCEPT !.current_class = "Subclass"],
                               stmt.superclass[1])
             ELSE Ok(f.st),
             stmt, enclosing_class)

\* After define: the superclass must not be the class itself and is
\* resolved with current_class = Subclass.
resolve_class_superclass(f, stmt, enclosing_class) ==
    IF ~IsOk(f) THEN f
    ELSE IF IsSome(stmt.superclass) /\ stmt.name = stmt.superclass[1].name
    THEN make_resolve_error(f.st, stmt.superclass[1].name, stmt.superclass[1].line,
                            "A class can't inherit from itself.")
    ELSE resolve_class_methods(
             IF IsSome(stmt.superclass)
             THEN resolve_expr([f.st EXCEPT !.current_class = "Subclass"],
                               stmt.superclass[1])
             ELSE Ok(f.st),
             stmt, enclosing_class)

\* After declare: define.
resolve_class_define(d, stmt, enclosing_class) ==
    IF ~IsOk(d) THEN d
    ELSE resolve_class_superclass(define(d.st, stmt.name, stmt.line), stmt,
                                  enclosing_class)

resolve_class(st, stmt) ==
    resolve_class_define(declare([st EXCEPT !.current_class = "Class"], stmt.name,
                                 stmt.line),
                         stmt, st.current_class)

resolve_stmt(st, statement) ==
    CASE statement.t = "Expression" -> resolve_expr(st, statement.expression)
      [] statement.t = "Print" -> resolve_expr(st, statement.expression)
      [] statement.t = "Var" ->
            LET d == declare(st, statement.name, statement.line)
            IN  IF ~IsOk(d) THEN d
                ELSE LET i == IF IsSome(statement.initializer)
                              THEN resolve_expr(d.st, statement.initializer[1])
                              ELSE Ok(d.st)
                     IN  IF ~IsOk(i) THEN i
                         ELSE define(i.st, statement.name, statement.line)
      [] statement.t = "Block" -> resolve_block(st, statement)
      [] statement.t = "If" ->
            LET c == resolve_expr(st, statement.condition)
            IN  IF ~IsOk(c) THEN c
                ELSE LET th == resolve_stmt(c.st, statement.then_branch)
                     IN  IF ~IsOk(th) \/ ~IsSome(statement.else_branch) THEN th
                         ELSE resolve_stmt(th.st, statement.else_branch[1])
      [] statement.t = "While" ->
            LET c == resolve_expr(st, statement.condition)
            IN  IF ~IsOk(c) THEN c ELSE resolve_stmt(c.st, statement.body)
      [] statement.t = "Return" ->
            IF st.current_function = "None"
            THEN make_resolve_error(st, "return", statement.line,
                                    "Can't return from top-level code.")
            ELSE IF ~IsSome(statement.value) THEN Ok(st)
            ELSE IF st.current_function = "Initializer"
            THEN make_resolve_error(st, "return", statement.line,
                                    "Can't return a value from an initializer.")
            ELSE resolve_expr(st, statement.value[1])
      [] statement.t = "Function" ->
            LET d == declare(st, statement.name, statement.line)
            IN  IF ~IsOk(d) THEN d
                ELSE LET f == define(d.st, statement.name, statement.line)
                     IN  IF ~IsOk(f) THEN f
                         ELSE resolve_function(f.st, statement.params, statement.body,
                                               "Function")
      [] statement.t = "Class" -> resolve_class(st, statement)

(***************************************************************************)
(* Classes and instances (class.rs), functions (callable.rs).              *)
(* A class is a heap cell [name, superclass, methods] (superclass = 0 for  *)
(* None), an instance a heap cell [class, fields].                         *)
(***************************************************************************)
LoxClass_new(name, superclass, methods) ==
    [name |-> name, superclass |-> superclass, methods |-> methods]

Instance_new(class) == [class |-> class, fields |-> EmptyMap]

\* LoxClass::find_method: this class, then the superclass chain.
RECURSIVE find_method(_, _, _)
find_method(ch, c, name) ==
    IF name \in DOMAIN ch[c].methods THEN Some(ch[c].methods[name])
    ELSE IF ch[c].superclass # 0 THEN find_method(ch, ch[c].superclass, name)
    ELSE None

\* LoxFunction::arity.
LoxFunction_arity(func) == Len(func.declaration.params)

\* Variant of the class arity that ignores `init` (for comparison).
LoxClass_arity_zero(ch, c) == 0

\* impl LoxCallable for Rc<RefCell<LoxClass>>: arity.
LoxClass_arity(ch, c) ==
    LET init == find_method(ch, c, "init")
    IN  IF IsSome(init) THEN LoxFunction_arity(init[1]) ELSE 0

\* LoxFunction::bind: a fresh environment enclosing the closure, with `this`;
\* the result is the new heap and the bound function.
bind(h, func, instance) ==
    LET fun_env == Len(h) + 1
    IN  [h |-> Environment_define(Append(h, Environment_with_enclosing(func.closure)),
                                  fun_env, "this", Instance(instance)),
         func |-> [func EXCEPT !.closure = fun_env]]

\* Variant of get_instance_field that prefers a method to a field (for
\* comparison).
get_instance_field_method_first(h, ch, ih, instance, name) ==
    LET method == find_method(ch, ih[instance].class, name)
    IN  IF IsSome(method)
        THEN LET b == bind(h, method[1], instance) IN [h |-> b.h, value |-> Some(b.func)]
        ELSE IF name \in DOMAIN ih[instance].fields
        THEN [h |-> h, value |-> Some(ih[instance].fields[name])]
        ELSE [h |-> h, value |-> None]

\* get_instance_field: a field first, then a method bound to the instance.
\* The result is [h, value] with value an option (None: undefined property).
get_instance_field(h, ch, ih, instance, name) ==
    IF name \in DOMAIN ih[instance].fields
    THEN [h |-> h, value |-> Some(ih[instance].fields[name])]
    ELSE LET method == find_method(ch, ih[instance].class, name)
         IN  IF IsSome(method)
             THEN LET b == bind(h, method[1], instance)
                  IN  [h |-> b.h, value |-> Some(b.func)]
             ELSE [h |-> h, value |-> None]

\* Variant of Instance::set that writes the field into every instance (for
\* comparison).
Instance_set_every(ih, instance, name, value) ==
    [i \in DOMAIN ih |-> [ih[i] EXCEPT !.fields = Put(@, name, value)]]

\* Instance::set.
Instance_set(ih, instance, name, value) ==
    [ih EXCEPT ![instance].fields = Put(@, name, value)]

(***************************************************************************)
(* Equality of values: derived PartialEq of Callable (callable.rs), of     *)
(* LoxClass behind Rc<RefCell<..>> (by content), LoxFunction by            *)
(* declaration and closure identity.                                       *)
(***************************************************************************)
\* Variant of the equality of LoxFunction that compares the declarations only
\* (for comparison).
LoxFunction_eq_declaration(a, b) == a.declaration = b.declaration

\* impl PartialEq for LoxFunction: equal declarations and the same closure
\* (Rc::ptr_eq).
LoxFunction_eq(a, b) == a.declaration = b.declaration /\ a.closure = b.closure

RECURSIVE LoxClass_eq(_, _, _)
LoxClass_eq(ch, a, b) ==
    /\ ch[a].name = ch[b].name
    /\ (ch[a].superclass = 0) = (ch[b].superclass = 0)
    /\ ch[a].superclass # 0 => LoxClass_eq(ch, ch[a].superclass, ch[b].superclass)
    /\ DOMAIN ch[a].methods = DOMAIN ch[b].methods
    /\ \A n \in DOMAIN ch[a].methods : LoxFunction_eq(ch[a].methods[n], ch[b].methods[n])

Callable_eq(ch, a, b) ==
    CASE a.k = "native" /\ b.k = "native" -> TRUE
      [] a.k = "fun" /\ b.k = "fun" -> LoxFunction_eq(a, b)
      [] a.k = "class" /\ b.k = "class" -> LoxClass_eq(ch, a.ref, b.ref)
      [] OTHER -> FALSE

IsCallable(v) == v.k \in {"native", "fun", "class"}

\* Interpreter::binary, given both operand values: [ok, value] or
\* [ok = FALSE, message].  Numbers are integers here and the programs do not
\* divide, so Slash is not modelled.
BothNumbers(left, right) == left.k = "num" /\ right.k = "num"

binary_result(ch, operator, left, right) ==
    LET numbers == "Operands must be numbers."
        Arith(v) == IF BothNumbers(left, right) THEN [ok |-> TRUE, value |-> v]
                    ELSE [ok |-> FALSE, message |-> numbers]
    IN  CASE operator = "Minus" -> Arith(Number(left.n - right.n))
          [] operator = "Star" -> Arith(Number(left.n * right.n))
          [] operator = "Plus" ->
                IF BothNumbers(left, right)
                THEN [ok |-> TRUE, value |-> Number(left.n + right.n)]
                ELSE IF left.k = "str" /\ right.k = "str"
                THEN [ok |-> TRUE, value |-> String(left.s \o right.s)]
                ELSE [ok |-> FALSE,
                      message |-> "Operands must be two numbers or two strings."]
          [] operator = "Greater" -> Arith(Bool(left.n > right.n))
          [] operator = "GreaterEqual" -> Arith(Bool(left.n >= right.n))
          [] operator = "Less" -> Arith(Bool(left.n < right.n))
          [] operator = "LessEqual" -> Arith(Bool(left.n <= right.n))
          [] operator = "BangEqual" ->
                [ok |-> TRUE, value |->
                    CASE left.k = "nil" /\ right.k = "nil" -> Bool(FALSE)
                      [] left.k = "bool" /\ right.k = "bool" -> Bool(left.b # right.b)
                      [] left.k = "num" /\ right.k = "num" -> Bool(left.n # right.n)
                      [] left.k = "str" /\ right.k = "str" -> Bool(left.s # right.s)
                      [] IsCallable(left) /\ IsCallable(right) ->
                            Bool(~Callable_eq(ch, left, right))
                      [] OTHER -> Bool(TRUE)]
          [] operator = "EqualEqual" ->
                [ok |-> TRUE, value |->
                    CASE left.k = "nil" /\ right.k = "nil" -> Bool(TRUE)
                      [] left.k = "bool" /\ right.k = "bool" -> Bool(left.b = right.b)
                      [] left.k = "num" /\ right.k = "num" -> Bool(left.n = right.n)
                      [] left.k = "str" /\ right.k = "str" -> Bool(left.s = right.s)
                      [] IsCallable(left) /\ IsCallable(right) ->
                            Bool(Callable_eq(ch, left, right))
                      [] OTHER -> Bool(FALSE)]
          [] OTHER -> [ok |-> FALSE, message |-> "Invalid operator."]

(***************************************************************************)
(* The evaluator (interpreter.rs) as a machine.                            *)
(*   ctrl = [m |-> "exec", s]     execute_statement(s) is entered          *)
(*          [m |-> "eval", e]     expression(e) is entered                 *)
(*          [m |-> "call", ...]   call(): callee and arguments evaluated   *)
(*                                (line: that of call.paren)               *)
(*          [m |-> "value", v]    an expression returned Ok(v)             *)
(*          [m |-> "result", ret, v]  a statement returned Ok(None) or     *)
(*                                Ok(Return(v))                            *)
(*          [m |-> "error", message]  an Err is being returned             *)
(*          [m |-> "halt"]        nothing runs                             *)
(* A frame of `stack` is the activation that receives that outcome.        *)
(***************************************************************************)
globals == 1

Exec(s) == [m |-> "exec", s |-> s]

Eval(e) == [m |-> "eval", e |-> e]

Value(v) == [m |-> "value", v |-> v]

ResultNone == [m |-> "result", ret |-> FALSE, v |-> Nil]

ResultReturn(v) == [m |-> "result", ret |-> TRUE, v |-> v]

\* The two shapes of the messages of InterpreterError that name a line:
\* format!("<text> '{}'.\n[line {}]", lexeme, line) and
\* format!("<text>\n[line {}]", line).
format_lexeme(text, lexeme, line) ==
    text \o " '" \o lexeme \o "'.\n[line " \o ToString(line) \o "]"

\* Variant of the second shape without the line (for comparison).
format_line_bare(text, line) == text

format_line(text, line) == text \o "\n[line " \o ToString(line) \o "]"

\* Err(InterpreterError { message }).
Error(message) == [m |-> "error", message |-> message]

Halt == [m |-> "halt"]

Top == stack[Len(stack)]

Pop == SubSeq(stack, 1, Len(stack) - 1)

Push(frame) == Append(stack, frame)

Replace(frame) == Append(Pop, frame)

Running == phase = "run"

At(mode, frame) == Running /\ ctrl.m = mode /\ Len(stack) > 0 /\ Top.f = frame

Entering(mode, kind) ==
    /\ Running
    /\ ctrl.m = mode
    /\ IF mode = "exec" THEN ctrl.s.t = kind ELSE ctrl.e.t = kind

\* Variant of the exit of execute_block that restores the environment on the
\* Ok path only (for comparison).
execute_block_exit_keep(previous, current, failed) == IF failed THEN current ELSE previous

\* The environment execute_block leaves in Interpreter.environment when it
\* returns: `self.environment = previous` on every path.
execute_block_exit(previous, current, failed) == previous

\* Variant of the loop of execute_block without the `break` on a Return (for
\* comparison).
execute_block_after_ignore_return(frame, result) ==
    IF frame.i < Len(frame.statements) THEN "next" ELSE "exit"

\* What the loop of execute_block does with the result of statement i.
execute_block_after(frame, result) ==
    IF result.ret THEN "exit"
    ELSE IF frame.i < Len(frame.statements) THEN "next" ELSE "exit"

\* What the loop of Stmt::While does with the result of its body.
while_after(result) == IF result.ret THEN "return" ELSE "condition"

\* Variant of the result of LoxFunction::call without the initializer case
\* (for comparison).
LoxFunction_call_result_plain(h, func, result) ==
    [ok |-> TRUE, value |-> result.v]

\* The value LoxFunction::call makes of the result of execute_block:
\* [ok, value] or [ok = FALSE] (an initializer without `this`).
LoxFunction_call_result(h, func, result) ==
    IF ~result.ret \/ result.v = Nil
    THEN IF func.is_initializer
         THEN LET instance == Environment_get_at(h, func.closure, "this", 0).value
              IN  IF IsSome(instance) /\ instance[1].k = "instance"
                  THEN [ok |-> TRUE, value |-> instance[1]]
                  ELSE [ok |-> FALSE, value |-> Nil]
         ELSE [ok |-> TRUE, value |-> Nil]
    ELSE [ok |-> TRUE, value |-> result.v]

\* Variant of fun_env that encloses the caller's environment: dynamic scoping
\* (for comparison).
fun_env_enclosing_caller(func, caller) == caller

\* The environment LoxFunction::call creates for the parameters.
fun_env_enclosing(func, caller) == func.closure

RECURSIVE define_params(_, _, _, _, _)
define_params(h, e, params, arguments, i) ==
    IF i > Len(arguments) THEN h
    ELSE define_params(Environment_define(h, e, params[i].lexeme, arguments[i]),
                       e, params, arguments, i + 1)

\* LoxFunction::call up to the first statement of the body: fun_env with the
\* parameters, then execute_block(body, fun_env) with its own environment.
\* `stk` is the stack the call is made on.
EnterFunction(func, arguments, h, stk) ==
    LET fun_env == Len(h) + 1
        h1 == define_params(
                  Append(h, Environment_with_enclosing(fun_env_enclosing(func, environment))),
                  fun_env, func.declaration.params, arguments, 1)
        body == func.declaration.body
    IN  /\ envs' = Append(h1, Environment_with_enclosing(fun_env))
        /\ environment' = fun_env + 1
        /\ stack' = stk \o << [f |-> "LoxFunction_call", func |-> func],
                               [f |-> "execute_block", statements |-> body, i |-> 1,
                                previous |-> environment] >>
        /\ ctrl' = IF Len(body) = 0 THEN ResultNone ELSE Exec(body[1])
        /\ calls' = Append(calls, [func |-> func, fun_env |-> fun_env,
                                   caller |-> environment, arguments |-> arguments])

(***************************************************************************)
(* Statements: Interpreter::execute, execute_statement, execute_block.     *)
(***************************************************************************)
\* Interpreter::execute: the next statement, or Ok at the end.  The result
\* of a statement is dropped (`self.execute_statement(statement)?;`).
execute_next ==
    /\ At("result", "execute")
    /\ IF Top.i < Len(Top.statements)
       THEN /\ stack' = Replace([Top EXCEPT !.i = @ + 1])
            /\ ctrl' = Exec(Top.statements[Top.i + 1])
            /\ phase' = phase
       ELSE /\ stack' = Pop
            /\ ctrl' = Halt
            /\ phase' = "done"
    /\ UNCHANGED <<standalone, prog, errors, locals, envs, environment, classes, instances,
                   output, calls>>

\* Interpreter::execute: `?` returns the error of a statement to the driver.
execute_fail ==
    /\ At("error", "execute")
    /\ stack' = Pop
    /\ ctrl' = Halt
    /\ phase' = "failed"
    /\ errors' = << ctrl.message >>
    /\ UNCHANGED <<standalone, prog, locals, envs, environment, classes, instances, output, calls>>

\* `?` in every activation but execute_block and execute: the error is
\* passed on to the caller.
propagate_error ==
    /\ Running /\ ctrl.m = "error" /\ Len(stack) > 0
    /\ Top.f \notin {"execute", "execute_block"}
    /\ stack' = Pop
    /\ UNCHANGED <<standalone, prog, phase, errors, locals, envs, environment, classes, instances,
                   output, ctrl, calls>>

\* execute_block(statements, environment): a new environment enclosing the
\* given one becomes current; the previous one is kept in the activation.
execute_block_enter ==
    /\ Entering("exec", "Block")
    /\ envs' = Append(envs, Environment_with_enclosing(environment))
    /\ environment' = Len(envs) + 1
    /\ stack' = Push([f |-> "execute_block", statements |-> ctrl.s.statements, i |-> 1,
                      previous |-> environment])
    /\ ctrl' = IF Len(ctrl.s.statements) = 0 THEN ResultNone
               ELSE Exec(ctrl.s.statements[1])
    /\ UNCHANGED <<standalone, prog, phase, errors, locals, classes, instances, output, calls>>

\* execute_block: a statement returned Ok.
execute_block_next ==
    /\ At("result", "execute_block")
    /\ IF execute_block_after(Top, ctrl) = "next"
       THEN /\ stack' = Replace([Top EXCEPT !.i = @ + 1])
            /\ ctrl' = Exec(Top.statements[Top.i + 1])
            /\ environment' = environment
       ELSE /\ stack' = Pop
            /\ ctrl' = ctrl
            /\ environment' = execute_block_exit(Top.previous, environment, FALSE)
    /\ UNCHANGED <<standalone, prog, phase, errors, locals, envs, classes, instances, output, calls>>

\* execute_block: a statement returned Err.
execute_block_error ==
    /\ At("error", "execute_block")
    /\ stack' = Pop
    /\ environment' = execute_block_exit(Top.previous, environment, TRUE)
    /\ UNCHANGED <<standalone, prog, phase, errors, locals, envs, classes, instances, output,
                   ctrl, calls>>

exec_Expression ==
    /\ Entering("exec", "Expression")
    /\ stack' = Push([f |-> "Expression"])
    /\ ctrl' = Eval(ctrl.s.expression)
    /\ UNCHANGED <<standalone, prog, phase, errors, locals, envs, environment, classes, instances,
                   output, calls>>

exec_Expression_done ==
    /\ At("value", "Expression")
    /\ stack' = Pop
    /\ ctrl' = ResultNone
    /\ UNCHANGED <<standalone, prog, phase, errors, locals, envs, environment, classes, instances,
                   output, calls>>

\* Stmt::Function: the function captures the current environment and is
\* defined in it.
exec_Function ==
    /\ Entering("exec", "Function")
    /\ envs' = Environment_define(envs, environment, ctrl.s.name,
                                  LoxFunction_new(ctrl.s, environment, FALSE))
    /\ ctrl' = ResultNone
    /\ UNCHANGED <<standalone, prog, phase, errors, locals, environment, classes, instances,
                   output, stack, calls>>

exec_Return ==
    /\ Entering("exec", "Return")
    /\ IF IsSome(ctrl.s.value)
       THEN /\ stack' = Push([f |-> "Return"])
            /\ ctrl' = Eval(ctrl.s.value[1])
       ELSE /\ stack' = stack
            /\ ctrl' = ResultReturn(Nil)
    /\ UNCHANGED <<standalone, prog, phase, errors, locals, envs, environment, classes, instances,
                   output, calls>>

exec_Return_done ==
    /\ At("value", "Return")
    /\ stack' = Pop
    /\ ctrl' = ResultReturn(ctrl.v)
    /\ UNCHANGED <<standalone, prog, phase, errors, locals, envs, environment, classes, instances,
                   output, calls>>

exec_If ==
    /\ Entering("exec", "If")
    /\ stack' = Push([f |-> "If", s |-> ctrl.s])
    /\ ctrl' = Eval(ctrl.s.condition)
    /\ UNCHANGED <<standalone, prog, phase, errors, locals, envs, environment, classes, instances,
                   output, calls>>

\* Stmt::If after the condition: the branch taken is executed in place
\* (`return self.execute_statement(branch)`).
exec_If_branch ==
    /\ At("value", "If")
    /\ stack' = Pop
    /\ ctrl' = IF is_true(ctrl.v) THEN Exec(Top.s.then_branch)
               ELSE IF IsSome(Top.s.else_branch) THEN Exec(Top.s.else_branch[1])
               ELSE ResultNone
    /\ UNCHANGED <<standalone, prog, phase, errors, locals, envs, environment, classes, instances,
                   output, calls>>

exec_Print ==
    /\ Entering("exec", "Print")
    /\ stack' = Push([f |-> "Print"])
    /\ ctrl' = Eval(ctrl.s.expression)
    /\ UNCHANGED <<standalone, prog, phase, errors, locals, envs, environment, classes, instances,
                   output, calls>>

exec_Print_done ==
    /\ At("value", "Print")
    /\ output' = Append(output, Display(ctrl.v))
    /\ stack' = Pop
    /\ ctrl' = ResultNone
    /\ UNCHANGED <<standalone, prog, phase, errors, locals, envs, environment, classes, instances,
                   calls>>

\* Stmt::Var: with an initializer the value is evaluated first; without one
\* Nil is defined at once.
exec_Var ==
    /\ Entering("exec", "Var")
    /\ IF IsSome(ctrl.s.initializer)
       THEN /\ stack' = Push([f |-> "Var", name |-> ctrl.s.name])
            /\ ctrl' = Eval(ctrl.s.initializer[1])
            /\ envs' = envs
       ELSE /\ stack' = stack
            /\ ctrl' = ResultNone
            /\ envs' = Environment_define(envs, environment, ctrl.s.name, Nil)
    /\ UNCHANGED <<standalone, prog, phase, errors, locals, environment, classes, instances,
                   output, calls>>

exec_Var_done ==
    /\ At("value", "Var")
    /\ envs' = Environment_define(envs, environment, Top.name, ctrl.v)
    /\ stack' = Pop
    /\ ctrl' = ResultNone
    /\ UNCHANGED <<standalone, prog, phase, errors, locals, environment, classes, instances,
                   output, calls>>

exec_While ==
    /\ Entering("exec", "While")
    /\ stack' = Push([f |-> "While_condition", s |-> ctrl.s])
    /\ ctrl' = Eval(ctrl.s.condition)
    /\ UNCHANGED <<standalone, prog, phase, errors, locals, envs, environment, classes, instances,
                   output, calls>>

\* Stmt::While after the condition.
exec_While_condition ==
    /\ At("value", "While_condition")
    /\ IF is_true(ctrl.v)
       THEN /\ stack' = Replace([f |-> "While_body", s |-> Top.s])
            /\ ctrl' = Exec(Top.s.body)
       ELSE /\ stack' = Pop
            /\ ctrl' = ResultNone
    /\ UNCHANGED <<standalone, prog, phase, errors, locals, envs, environment, classes, instances,
                   output, calls>>

\* Stmt::While after the body: a Return leaves the loop, anything else goes
\* back to the condition.
exec_While_body ==
    /\ At("result", "While_body")
    /\ IF while_after(ctrl) = "return"
       THEN /\ stack' = Pop
            /\ ctrl' = ctrl
       ELSE /\ stack' = Replace([f |-> "While_condition", s |-> Top.s])
            /\ ctrl' = Eval(Top.s.condition)
    /\ UNCHANGED <<standalone, prog, phase, errors, locals, envs, environment, classes, instances,
                   output, calls>>

\* The methods map of Stmt::Class: each method captures `closure`.
RECURSIVE class_methods(_, _, _, _)
class_methods(methods, closure, i, acc) ==
    IF i > Len(methods) THEN acc
    ELSE class_methods(methods, closure, i + 1,
             Put(acc, methods[i].name,
                 LoxFunction_new(methods[i], closure, methods[i].name = "init")))

\* lookup_variable: through locals with get_at on the current environment,
\* otherwise in globals.  [panic, value].
lookup_variable(name, id) ==
    IF id \in DOMAIN locals
    THEN Environment_get_at(envs, environment, name, locals[id])
    ELSE [panic |-> FALSE, value |-> Environment_get(envs, globals, name)]

\* Variant of the exit of Stmt::Class that stays in the environment that
\* holds `super` (for comparison).
class_exit_environment_stay(h, current, has_super) == current

\* Stmt::Class leaves the environment that held `super`:
\* `self.environment = self.environment.enclosing.unwrap()`.
class_exit_environment(h, current, has_super) ==
    IF has_super THEN h[current].enclosing ELSE current

\* Stmt::Class, which calls no statement or expression but lookup_variable:
\* the superclass is looked up, the name is defined as Nil, with a
\* superclass a new environment holding `super` becomes current, the
\* methods capture the current environment, the `super` environment is left
\* again and the class is assigned to the name.
exec_Class ==
    /\ Entering("exec", "Class")
    /\ LET has_super == IsSome(ctrl.s.superclass)
           found == IF has_super
                    THEN lookup_variable(ctrl.s.superclass[1].name, ctrl.s.superclass[1].id)
                    ELSE [panic |-> FALSE, value |-> None]
       IN  IF has_super /\ found.panic
           THEN /\ phase' = "panic"
                /\ ctrl' = Halt
                /\ UNCHANGED <<envs, classes, environment>>
           ELSE IF has_super /\ ~IsSome(found.value)
           THEN /\ ctrl' = Error(format_lexeme("Undefined variable",
                                               ctrl.s.superclass[1].name,
                                               ctrl.s.superclass[1].line))
                /\ UNCHANGED <<phase, envs, classes, environment>>
           ELSE IF has_super /\ found.value[1].k # "class"
           THEN /\ ctrl' = Error(format_line("Superclass must be a class.",
                                             ctrl.s.superclass[1].line))
                /\ UNCHANGED <<phase, envs, classes, environment>>
           ELSE LET superclass == IF has_super THEN found.value[1].ref ELSE 0
                    h1 == Environment_define(envs, environment, ctrl.s.name, Nil)
                    h2 == IF has_super
                          THEN Environment_define(
                                   Append(h1, Environment_with_enclosing(environment)),
                                   Len(h1) + 1, "super", Class(superclass))
                          ELSE h1
                    inside == IF has_super THEN Len(h1) + 1 ELSE environment
                    methods == class_methods(ctrl.s.methods, inside, 1, EmptyMap)
                    class == Len(classes) + 1
                    outside == class_exit_environment(h2, inside, has_super)
                    a == Environment_assign(h2, outside, ctrl.s.name, Class(class))
                IN  /\ classes' = Append(classes,
                                         LoxClass_new(ctrl.s.name, superclass, methods))
                    /\ envs' = a.h
                    /\ environment' = outside
                    /\ ctrl' = IF a.ok THEN ResultNone
                               ELSE Error(format_lexeme("Undefined variable",
                                                        ctrl.s.name, ctrl.s.line))
                    /\ phase' = phase
    /\ UNCHANGED <<standalone, prog, errors, locals, instances, output, stack, calls>>

(***************************************************************************)
(* Expressions: Interpreter::expression and the functions it dispatches to.*)
(***************************************************************************)
eval_Literal ==
    /\ Entering("eval", "Literal")
    /\ ctrl' = Value(ctrl.e.value)
    /\ UNCHANGED <<standalone, prog, phase, errors, locals, envs, environment, classes, instances,
                   output, stack, calls>>

\* The outcome of lookup_variable as the next ctrl and phase.
LookupOutcome(name, line, id) ==
    LET found == lookup_variable(name, id)
    IN  IF found.panic THEN /\ ctrl' = Halt
                            /\ phase' = "panic"
        ELSE /\ phase' = phase
             /\ ctrl' = IF IsSome(found.value) THEN Value(found.value[1])
                        ELSE Error(format_lexeme("Undefined variable", name, line))

eval_Variable ==
    /\ Entering("eval", "Variable")
    /\ LookupOutcome(ctrl.e.name, ctrl.e.line, ctrl.e.id)
    /\ UNCHANGED <<standalone, prog, errors, locals, envs, environment, classes, instances,
                   output, stack, calls>>

eval_This ==
    /\ Entering("eval", "This")
    /\ LookupOutcome("this", ctrl.e.line, ctrl.e.id)
    /\ UNCHANGED <<standalone, prog, errors, locals, envs, environment, classes, instances,
                   output, stack, calls>>

\* Variant of the method search of Expression::Super that starts at the
\* superclass of the class of `this` (for comparison).
Super_method_of_instance(ch, ih, super_class, instance, name) ==
    IF ch[ih[instance].class].superclass = 0 THEN None
    ELSE find_method(ch, ch[ih[instance].class].superclass, name)

\* The method search of Expression::Super: find_method on the class that
\* `super` is bound to.
Super_method(ch, ih, super_class, instance, name) == find_method(ch, super_class, name)

\* Expression::Super: `super` is read at the recorded depth and `this` one
\* environment nearer; the method found from the superclass on is bound to
\* `this`.  A depth of 0 makes `depth - 1` overflow: a panic in a build with
\* overflow checks, otherwise a walk that ends at None.
eval_Super ==
    /\ Entering("eval", "Super")
    /\ IF ctrl.e.id \notin DOMAIN locals
       THEN /\ ctrl' = Error(format_line("Cannot use 'super' outside of a class.",
                                         ctrl.e.line))
            /\ UNCHANGED <<phase, envs>>
       ELSE LET depth == locals[ctrl.e.id]
                super_value == Environment_get_at(envs, environment, "super", depth)
                this_value ==
                    IF depth = 0 THEN [panic |-> FALSE, value |-> None]
                    ELSE Environment_get_at(envs, environment, "this", depth - 1)
                method ==
                    Super_method(classes, instances, super_value.value[1].ref,
                                 this_value.value[1].ref, ctrl.e.method)
            IN  IF super_value.panic
                THEN ctrl' = Halt /\ phase' = "panic" /\ envs' = envs
                ELSE IF ~IsSome(super_value.value)
                THEN /\ ctrl' = Error(format_lexeme("Undefined variable", "super",
                                                    ctrl.e.line))
                     /\ UNCHANGED <<phase, envs>>
                ELSE IF this_value.panic
                THEN ctrl' = Halt /\ phase' = "panic" /\ envs' = envs
                ELSE IF depth = 0
                THEN /\ envs' = envs
                     /\ \/ ctrl' = Halt /\ phase' = "panic"
                        \/ /\ ctrl' = Error(format_line("Superclass must be a class.",
                                                        ctrl.e.line))
                           /\ phase' = phase
                ELSE IF /\ IsSome(this_value.value)
                        /\ this_value.value[1].k = "instance"
                        /\ super_value.value[1].k = "class"
                THEN IF IsSome(method)
                     THEN LET b == bind(envs, method[1], this_value.value[1].ref)
                          IN  /\ envs' = b.h
                              /\ ctrl' = Value(b.func)
                              /\ phase' = phase
                     ELSE /\ ctrl' = Error(format_lexeme("Undefined property",
                                                         ctrl.e.method,
                                                         ctrl.e.method_line))
                          /\ UNCHANGED <<phase, envs>>
                ELSE /\ ctrl' = Error(format_line("Superclass must be a class.",
                                                  ctrl.e.line))
                     /\ UNCHANGED <<phase, envs>>
    /\ UNCHANGED <<standalone, prog, errors, locals, environment, classes, instances, output,
                   stack, calls>>

eval_Assign ==
    /\ Entering("eval", "Assign")
    /\ stack' = Push([f |-> "Assign", e |-> ctrl.e])
    /\ ctrl' = Eval(ctrl.e.value)
    /\ UNCHANGED <<standalone, prog, phase, errors, locals, envs, environment, classes, instances,
                   output, calls>>

\* Expression::Assign after the value: assign_at with the recorded depth,
\* otherwise assign on globals.
eval_Assign_done ==
    /\ At("value", "Assign")
    /\ LET e == Top.e
           a == IF e.id \in DOMAIN locals
                THEN Environment_assign_at(envs, environment, e.name, ctrl.v, locals[e.id])
                ELSE Environment_assign(envs, globals, e.name, ctrl.v)
       IN  /\ envs' = a.h
           /\ ctrl' = IF a.ok THEN Value(ctrl.v)
                      ELSE Error(format_lexeme("Undefined variable", e.name, e.line))
    /\ stack' = Pop
    /\ UNCHANGED <<standalone, prog, phase, errors, locals, environment, classes, instances,
                   output, calls>>

eval_Binary ==
    /\ Entering("eval", "Binary")
    /\ stack' = Push([f |-> "Binary_left", e |-> ctrl.e])
    /\ ctrl' = Eval(ctrl.e.left)
    /\ UNCHANGED <<standalone, prog, phase, errors, locals, envs, environment, classes, instances,
                   output, calls>>

eval_Binary_left ==
    /\ At("value", "Binary_left")
    /\ stack' = Replace([f |-> "Binary_right", e |-> Top.e, left |-> ctrl.v])
    /\ ctrl' = Eval(Top.e.right)
    /\ UNCHANGED <<standalone, prog, phase, errors, locals, envs, environment, classes, instances,
                   output, calls>>

eval_Binary_right ==
    /\ At("value", "Binary_right")
    /\ LET r == binary_result(classes, Top.e.operator, Top.left, ctrl.v)
       IN  ctrl' = IF r.ok THEN Value(r.value)
                   ELSE IF r.message = "Invalid operator." THEN Error(r.message)
                   ELSE Error(format_line(r.message, Top.e.line))
    /\ stack' = Pop
    /\ UNCHANGED <<standalone, prog, phase, errors, locals, envs, environment, classes, instances,
                   output, calls>>

eval_Logical ==
    /\ Entering("eval", "Logical")
    /\ stack' = Push([f |-> "Logical", e |-> ctrl.e])
    /\ ctrl' = Eval(ctrl.e.left)
    /\ UNCHANGED <<standalone, prog, phase, errors, locals, envs, environment, classes, instances,
                   output, calls>>

\* Variant of the test of Interpreter::logical that never returns the left
\* operand (for comparison).
logical_returns_left_never(operator, left) == FALSE

\* Interpreter::logical: whether the left operand is the result.
logical_returns_left(operator, left) ==
    IF operator = "Or" THEN is_true(left) ELSE ~is_true(left)

\* Interpreter::logical after the left operand: it is returned as it is, or
\* the right operand is evaluated and its value is the result
\* (`self.expression(&*logical.right)` in tail position).
eval_Logical_left ==
    /\ At("value", "Logical")
    /\ stack' = Pop
    /\ ctrl' = IF logical_returns_left(Top.e.operator, ctrl.v) THEN ctrl
               ELSE Eval(Top.e.right)
    /\ UNCHANGED <<standalone, prog, phase, errors, locals, envs, environment, classes, instances,
                   output, calls>>

eval_Get ==
    /\ Entering("eval", "Get")
    /\ stack' = Push([f |-> "Get", e |-> ctrl.e])
    /\ ctrl' = Eval(ctrl.e.object)
    /\ UNCHANGED <<standalone, prog, phase, errors, locals, envs, environment, classes, instances,
                   output, calls>>

\* Interpreter::get after the object.
eval_Get_done ==
    /\ At("value", "Get")
    /\ IF ctrl.v.k = "instance"
       THEN LET r == get_instance_field(envs, classes, instances, ctrl.v.ref, Top.e.name)
            IN  /\ envs' = r.h
                /\ ctrl' = IF IsSome(r.value) THEN Value(r.value[1])
                           ELSE Error(format_lexeme("Undefined property", Top.e.name,
                                                    Top.e.line))
       ELSE /\ envs' = envs
            /\ ctrl' = Error(format_line("Only instances have properties.", Top.e.line))
    /\ stack' = Pop
    /\ UNCHANGED <<standalone, prog, phase, errors, locals, environment, classes, instances,
                   output, calls>>

eval_Set ==
    /\ Entering("eval", "Set")
    /\ stack' = Push([f |-> "Set_object", e |-> ctrl.e])
    /\ ctrl' = Eval(ctrl.e.object)
    /\ UNCHANGED <<standalone, prog, phase, errors, locals, envs, environment, classes, instances,
                   output, calls>>

\* Interpreter::set after the object.
eval_Set_object ==
    /\ At("value", "Set_object")
    /\ IF ctrl.v.k = "instance"
       THEN /\ stack' = Replace([f |-> "Set_value", e |-> Top.e, instance |-> ctrl.v.ref])
            /\ ctrl' = Eval(Top.e.value)
       ELSE /\ stack' = Pop
            /\ ctrl' = Error(format_line("Only instances have fields.", Top.e.line))
    /\ UNCHANGED <<standalone, prog, phase, errors, locals, envs, environment, classes, instances,
                   output, calls>>

eval_Set_value ==
    /\ At("value", "Set_value")
    /\ instances' = Instance_set(instances, Top.instance, Top.e.name, ctrl.v)
    /\ stack' = Pop
    /\ ctrl' = ctrl
    /\ UNCHANGED <<standalone, prog, phase, errors, locals, envs, environment, classes, output, calls>>

(***************************************************************************)
(* Calls: Interpreter::call, LoxFunction::call, the call of a class.       *)
(***************************************************************************)
eval_Call ==
    /\ Entering("eval", "Call")
    /\ stack' = Push([f |-> "Call_callee", e |-> ctrl.e])
    /\ ctrl' = Eval(ctrl.e.callee)
    /\ UNCHANGED <<standalone, prog, phase, errors, locals, envs, environment, classes, instances,
                   output, calls>>

\* Variant of the loop over call.arguments that runs from the last argument
\* to the first (for comparison).
argument_index_reversed(count, k) == count + 1 - k

\* `for arg in &call.arguments`: the argument evaluated as the k-th of
\* `count`.
argument_index(count, k) == k

\* Interpreter::call after the callee: only a callable is called; its
\* arguments are evaluated from the first on.
call_callee ==
    /\ At("value", "Call_callee")
    /\ IF ~IsCallable(ctrl.v)
       THEN /\ stack' = Pop
            /\ ctrl' = Error(format_line("Can only call functions and classes.",
                                         Top.e.line))
       ELSE IF Len(Top.e.arguments) = 0
       THEN /\ stack' = Pop
            /\ ctrl' = [m |-> "call", callee |-> ctrl.v, arguments |-> << >>,
                        line |-> Top.e.line]
       ELSE /\ stack' = Replace([f |-> "Call_arguments", e |-> Top.e, callee |-> ctrl.v,
                                 arguments |-> << >>])
            /\ ctrl' = Eval(Top.e.arguments[argument_index(Len(Top.e.arguments), 1)])
    /\ UNCHANGED <<standalone, prog, phase, errors, locals, envs, environment, classes, instances,
                   output, calls>>

\* Interpreter::call: the loop over call.arguments.
call_argument ==
    /\ At("value", "Call_arguments")
    /\ LET arguments == Append(Top.arguments, ctrl.v)
       IN  IF Len(arguments) < Len(Top.e.arguments)
           THEN /\ stack' = Replace([Top EXCEPT !.arguments = arguments])
                /\ ctrl' = Eval(Top.e.arguments[argument_index(Len(Top.e.arguments),
                                                               Len(arguments) + 1)])
           ELSE /\ stack' = Pop
                /\ ctrl' = [m |-> "call", callee |-> Top.callee, arguments |-> arguments,
                            line |-> Top.e.line]
    /\ UNCHANGED <<standalone, prog, phase, errors, locals, envs, environment, classes, instances,
                   output, calls>>

\* The arity Interpreter::call compares the argument count with.
Callable_arity(callee) ==
    CASE callee.k = "native" -> 0
      [] callee.k = "fun" -> LoxFunction_arity(callee)
      [] callee.k = "class" -> LoxClass_arity(classes, callee.ref)

Calling(kind) == Running /\ ctrl.m = "call" /\ ctrl.callee.k = kind

\* Variant of the arity check that lets every call through (for comparison).
arity_matches_always(arguments, arity) == TRUE

\* The arity check of Interpreter::call (`arguments.len() != arity` fails).
arity_matches(arguments, arity) == Len(arguments) = arity

call_arity_mismatch ==
    /\ Running /\ ctrl.m = "call"
    /\ ~arity_matches(ctrl.arguments, Callable_arity(ctrl.callee))
    /\ ctrl' = Error(format_line(
                    "Expected " \o ToString(Callable_arity(ctrl.callee))
                        \o " arguments but got " \o ToString(Len(ctrl.arguments)) \o ".",
                    ctrl.line))
    /\ UNCHANGED <<standalone, prog, phase, errors, locals, envs, environment, classes, instances,
                   output, stack, calls>>

\* The values the clock can give.
ClockValues == {Number(0), Number(1)}

\* Callable::DynamicFunction: the builtin clock.
call_DynamicFunction ==
    /\ Calling("native")
    /\ arity_matches(ctrl.arguments, Callable_arity(ctrl.callee))
    /\ \E now \in ClockValues : ctrl' = Value(now)
    /\ UNCHANGED <<standalone, prog, phase, errors, locals, envs, environment, classes, instances,
                   output, stack, calls>>

\* Callable::Function: LoxFunction::call.
call_Function ==
    /\ Calling("fun")
    /\ arity_matches(ctrl.arguments, Callable_arity(ctrl.callee))
    /\ EnterFunction(ctrl.callee, ctrl.arguments, envs, stack)
    /\ UNCHANGED <<standalone, prog, phase, errors, locals, classes, instances, output>>

\* LoxFunction::call after execute_block.
LoxFunction_call_done ==
    /\ At("result", "LoxFunction_call")
    /\ LET r == LoxFunction_call_result(envs, Top.func, ctrl)
       IN  ctrl' = IF r.ok THEN Value(r.value)
                   ELSE Error("Initializer function called without 'this' instance.")
    /\ stack' = Pop
    /\ UNCHANGED <<standalone, prog, phase, errors, locals, envs, environment, classes, instances,
                   output, calls>>

\* Callable::Class: a new instance; `init`, when found, is bound to it and
\* called with the arguments.
call_Class ==
    /\ Calling("class")
    /\ arity_matches(ctrl.arguments, Callable_arity(ctrl.callee))
    /\ LET instance == Len(instances) + 1
           method == find_method(classes, ctrl.callee.ref, "init")
       IN  /\ instances' = Append(instances, Instance_new(ctrl.callee.ref))
           /\ IF IsSome(method)
              THEN LET b == bind(envs, method[1], instance)
                   IN  EnterFunction(b.func, ctrl.arguments, b.h,
                                     Push([f |-> "LoxClass_call", instance |-> instance]))
              ELSE /\ ctrl' = Value(Instance(instance))
                   /\ UNCHANGED <<envs, environment, stack, calls>>
    /\ UNCHANGED <<standalone, prog, phase, errors, locals, classes, output>>

\* The call of a class after `method.call(interpreter, arguments)?`.
LoxClass_call_done ==
    /\ At("value", "LoxClass_call")
    /\ ctrl' = Value(Instance(Top.instance))
    /\ stack' = Pop
    /\ UNCHANGED <<standalone, prog, phase, errors, locals, envs, environment, classes, instances,
                   output, calls>>

(***************************************************************************)
(* The inputs: programs as the parser builds them, expressions numbered in *)
(* the order Parser::next_id hands the ids out.  `n` is a number the       *)
(* program is run with.                                                    *)
(***************************************************************************)
\* shadow:
\*   var a = 5;
\*   { var a = 10; print a; var b = $n; print b; }
\*   print a;
\*   print b;
Program_shadow(n) ==
    <<
        VarStmt("a", 1, Some(Literal(0, Number(5)))),
        BlockStmt(<< VarStmt("a", 2, Some(Literal(1, Number(10)))), PrintStmt(Variable(2,
            "a", 2)), VarStmt("b", 2, Some(Literal(3, Number(n)))), PrintStmt(Variable(4,
            "b", 2)) >>),
        PrintStmt(Variable(5, "a", 3)),
        PrintStmt(Variable(6, "b", 4))
    >>

\* depths:
\*   { var a = "outer"; { var b = $n; { var a = "inner"; print a; print b; } print a; a = "set"; } print a; }
Program_depths(n) ==
    <<
        BlockStmt(<< VarStmt("a", 1, Some(Literal(0, String("outer")))),
            BlockStmt(<< VarStmt("b", 1, Some(Literal(1, Number(n)))),
            BlockStmt(<< VarStmt("a", 1, Some(Literal(2, String("inner")))),
            PrintStmt(Variable(3, "a", 1)), PrintStmt(Variable(4, "b", 1)) >>),
            PrintStmt(Variable(5, "a", 1)), ExpressionStmt(Assign(8, "a", 1, Literal(7,
            String("set")))) >>), PrintStmt(Variable(9, "a", 1)) >>)
    >>

\* lexical:
\*   { var a = "outer"; { fun showA() { print a; } showA(); var a = "inner"; showA(); } }
Program_lexical(n) ==
    <<
        BlockStmt(<< VarStmt("a", 1, Some(Literal(0, String("outer")))),
            BlockStmt(<< FunctionStmt("showA", 1, <<  >>, << PrintStmt(Variable(1, "a",
            1)) >>), ExpressionStmt(Call(3, Variable(2, "showA", 1), 1, <<  >>)),
            VarStmt("a", 1, Some(Literal(4, String("inner")))), ExpressionStmt(Call(6,
            Variable(5, "showA", 1), 1, <<  >>)) >>) >>)
    >>

\* lexical_global:
\*   var a = "global";
\*   { fun showA() { print a; } showA(); var a = "block"; showA(); }
Program_lexical_global(n) ==
    <<
        VarStmt("a", 1, Some(Literal(0, String("global")))),
        BlockStmt(<< FunctionStmt("showA", 2, <<  >>, << PrintStmt(Variable(1, "a",
            2)) >>), ExpressionStmt(Call(3, Variable(2, "showA", 2), 2, <<  >>)),
            VarStmt("a", 2, Some(Literal(4, String("block")))), ExpressionStmt(Call(6,
            Variable(5, "showA", 2), 2, <<  >>)) >>)
    >>

\* counter:
\*   fun makeCounter() { var i = $n; fun count() { i = i + 1; return i; } return count; }
\*   var c1 = makeCounter();
\*   var c2 = makeCounter();
\*   print c1();
\*   print c1();
\*   print c2();
Program_counter(n) ==
    <<
        FunctionStmt("makeCounter", 1, <<  >>, << VarStmt("i", 1, Some(Literal(0,
            Number(n)))), FunctionStmt("count", 1, <<  >>, << ExpressionStmt(Assign(5,
            "i", 1, Binary(4, Variable(2, "i", 1), "Plus", 1, Literal(3, Number(1))))),
            ReturnStmt(1, Some(Variable(6, "i", 1))) >>), ReturnStmt(1, Some(Variable(7,
            "count", 1))) >>),
        VarStmt("c1", 2, Some(Call(9, Variable(8, "makeCounter", 2), 2, <<  >>))),
        VarStmt("c2", 3, Some(Call(11, Variable(10, "makeCounter", 3), 3, <<  >>))),
        PrintStmt(Call(13, Variable(12, "c1", 4), 4, <<  >>)),
        PrintStmt(Call(15, Variable(14, "c1", 5), 5, <<  >>)),
        PrintStmt(Call(17, Variable(16, "c2", 6), 6, <<  >>))
    >>

\* shared:
\*   var s;
\*   var g;
\*   { var x = $n; fun set(v) { x = v; } fun get() { return x; } s = set; g = get; x = x + 1; }
\*   print g();
\*   s(7);
\*   print g();
Program_shared(n) ==
    <<
        VarStmt("s", 1, None),
        VarStmt("g", 2, None),
        BlockStmt(<< VarStmt("x", 3, Some(Literal(0, Number(n)))), FunctionStmt("set", 3,
            << Name("v", 3) >>, << ExpressionStmt(Assign(3, "x", 3, Variable(2, "v",
            3))) >>), FunctionStmt("get", 3, <<  >>, << ReturnStmt(3, Some(Variable(4,
            "x", 3))) >>), ExpressionStmt(Assign(7, "s", 3, Variable(6, "set", 3))),
            ExpressionStmt(Assign(10, "g", 3, Variable(9, "get", 3))),
            ExpressionStmt(Assign(15, "x", 3, Binary(14, Variable(12, "x", 3), "Plus", 3,
            Literal(13, Number(1))))) >>),
        PrintStmt(Call(17, Variable(16, "g", 4), 4, <<  >>)),
        ExpressionStmt(Call(20, Variable(18, "s", 5), 5, << Literal(19, Number(7)) >>)),
        PrintStmt(Call(22, Variable(21, "g", 6), 6, <<  >>))
    >>

\* return_loop:
\*   fun bar(n) { var i = 0; while (true) { { print i; if (i >= n) return i; } i = i + 1; } print "not reached"; }
\*   fun bare() { { return; } print "not reached"; }
\*   fun falls() { }
\*   print bar($n);
\*   print bare();
\*   print falls();
Program_return_loop(n) ==
    <<
        FunctionStmt("bar", 1, << Name("n", 1) >>, << VarStmt("i", 1, Some(Literal(0,
            Number(0)))), WhileStmt(Literal(1, Bool(TRUE)),
            BlockStmt(<< BlockStmt(<< PrintStmt(Variable(2, "i", 1)), IfStmt(Binary(5,
            Variable(3, "i", 1), "GreaterEqual", 1, Variable(4, "n", 1)), ReturnStmt(1,
            Some(Variable(6, "i", 1))), None) >>), ExpressionStmt(Assign(11, "i", 1,
            Binary(10, Variable(8, "i", 1), "Plus", 1, Literal(9, Number(1))))) >>)),
            PrintStmt(Literal(12, String("not reached"))) >>),
        FunctionStmt("bare", 2, <<  >>, << BlockStmt(<< ReturnStmt(2, None) >>),
            PrintStmt(Literal(13, String("not reached"))) >>),
        FunctionStmt("falls", 3, <<  >>, <<  >>),
        PrintStmt(Call(16, Variable(14, "bar", 4), 4, << Literal(15, Number(n)) >>)),
        PrintStmt(Call(18, Variable(17, "bare", 5), 5, <<  >>)),
        PrintStmt(Call(20, Variable(19, "falls", 6), 6, <<  >>))
    >>

\* error_in_call:
\*   fun f(n) { { var x = 1; while (n > 0) { print n; n = n - 1; } { print y; } } }
\*   { var z = 1; f($n); }
\*   print "not reached";
Program_error_in_call(n) ==
    <<
        FunctionStmt("f", 1, << Name("n", 1) >>, << BlockStmt(<< VarStmt("x", 1,
            Some(Literal(0, Number(1)))), WhileStmt(Binary(3, Variable(1, "n", 1),
            "Greater", 1, Literal(2, Number(0))), BlockStmt(<< PrintStmt(Variable(4, "n",
            1)), ExpressionStmt(Assign(9, "n", 1, Binary(8, Variable(6, "n", 1), "Minus",
            1, Literal(7, Number(1))))) >>)), BlockStmt(<< PrintStmt(Variable(10, "y",
            1)) >>) >>) >>),
        BlockStmt(<< VarStmt("z", 2, Some(Literal(11, Number(1)))),
            ExpressionStmt(Call(14, Variable(12, "f", 2), 2, << Literal(13,
            Number(n)) >>)) >>),
        PrintStmt(Literal(15, String("not reached")))
    >>

\* inherit:
\*   class A { m() { return "A.m"; } n() { return "A.n"; } who() { return this.tag; } }
\*   class B < A { m() { return "B.m"; } }
\*   class C < B { }
\*   var b = B();
\*   var c = C();
\*   b.tag = "b";
\*   c.tag = "c";
\*   print b.m();
\*   print b.n();
\*   print c.m();
\*   b.n = $n;
\*   print b.n;
\*   print c.n();
\*   var w = c.who;
\*   print w();
\*   print b.who();
\*   print b.zz;
Program_inherit(n) ==
    <<
        ClassStmt("A", 1, None, << FunctionStmt("m", 1, <<  >>, << ReturnStmt(1,
            Some(Literal(0, String("A.m")))) >>), FunctionStmt("n", 1, <<  >>,
            << ReturnStmt(1, Some(Literal(1, String("A.n")))) >>), FunctionStmt("who", 1,
            <<  >>, << ReturnStmt(1, Some(Get(3, This(2, 1), "tag", 1))) >>) >>),
        ClassStmt("B", 2, Some(Variable(4, "A", 2)), << FunctionStmt("m", 2, <<  >>,
            << ReturnStmt(2, Some(Literal(5, String("B.m")))) >>) >>),
        ClassStmt("C", 3, Some(Variable(6, "B", 3)), <<  >>),
        VarStmt("b", 4, Some(Call(8, Variable(7, "B", 4), 4, <<  >>))),
        VarStmt("c", 5, Some(Call(10, Variable(9, "C", 5), 5, <<  >>))),
        ExpressionStmt(Set(14, Variable(11, "b", 6), "tag", 6, Literal(13, String("b")))),
        ExpressionStmt(Set(18, Variable(15, "c", 7), "tag", 7, Literal(17, String("c")))),
        PrintStmt(Call(21, Get(20, Variable(19, "b", 8), "m", 8), 8, <<  >>)),
        PrintStmt(Call(24, Get(23, Variable(22, "b", 9), "n", 9), 9, <<  >>)),
        PrintStmt(Call(27, Get(26, Variable(25, "c", 10), "m", 10), 10, <<  >>)),
        ExpressionStmt(Set(31, Variable(28, "b", 11), "n", 11, Literal(30, Number(n)))),
        PrintStmt(Get(33, Variable(32, "b", 12), "n", 12)),
        PrintStmt(Call(36, Get(35, Variable(34, "c", 13), "n", 13), 13, <<  >>)),
        VarStmt("w", 14, Some(Get(38, Variable(37, "c", 14), "who", 14))),
        PrintStmt(Call(40, Variable(39, "w", 15), 15, <<  >>)),
        PrintStmt(Call(43, Get(42, Variable(41, "b", 16), "who", 16), 16, <<  >>)),
        PrintStmt(Get(45, Variable(44, "b", 17), "zz", 17))
    >>

\* bad_super:
\*   var NotAClass = $n;
\*   { class D < NotAClass { } }
Program_bad_super(n) ==
    <<
        VarStmt("NotAClass", 1, Some(Literal(0, Number(n)))),
        BlockStmt(<< ClassStmt("D", 2, Some(Variable(1, "NotAClass", 2)), <<  >>) >>)
    >>

\* factorial:
\*   fun fact(n) { if (n <= 0) return 1; return fact(n - 1) * n; }
\*   print fact($n);
Program_factorial(n) ==
    <<
        FunctionStmt("fact", 1, << Name("n", 1) >>, << IfStmt(Binary(2, Variable(0, "n",
            1), "LessEqual", 1, Literal(1, Number(0))), ReturnStmt(1, Some(Literal(3,
            Number(1)))), None), ReturnStmt(1, Some(Binary(10, Call(8, Variable(4,
            "fact", 1), 1, << Binary(7, Variable(5, "n", 1), "Minus", 1, Literal(6,
            Number(1))) >>), "Star", 1, Variable(9, "n", 1)))) >>),
        PrintStmt(Call(13, Variable(11, "fact", 2), 2, << Literal(12, Number(n)) >>))
    >>

\* caller_locals:
\*   var x = "global";
\*   fun g() { x = "written"; print x; }
\*   fun h(a) { var x = a; g(); print x; }
\*   h($n);
\*   print x;
\*   fun r() { print y; }
\*   fun q() { var y = 1; r(); }
\*   q();
Program_caller_locals(n) ==
    <<
        VarStmt("x", 1, Some(Literal(0, String("global")))),
        FunctionStmt("g", 2, <<  >>, << ExpressionStmt(Assign(3, "x", 2, Literal(2,
            String("written")))), PrintStmt(Variable(4, "x", 2)) >>),
        FunctionStmt("h", 3, << Name("a", 3) >>, << VarStmt("x", 3, Some(Variable(5, "a",
            3))), ExpressionStmt(Call(7, Variable(6, "g", 3), 3, <<  >>)),
            PrintStmt(Variable(8, "x", 3)) >>),
        ExpressionStmt(Call(11, Variable(9, "h", 4), 4, << Literal(10, Number(n)) >>)),
        PrintStmt(Variable(12, "x", 5)),
        FunctionStmt("r", 6, <<  >>, << PrintStmt(Variable(13, "y", 6)) >>),
        FunctionStmt("q", 7, <<  >>, << VarStmt("y", 7, Some(Literal(14, Number(1)))),
            ExpressionStmt(Call(16, Variable(15, "r", 7), 7, <<  >>)) >>),
        ExpressionStmt(Call(18, Variable(17, "q", 8), 8, <<  >>))
    >>

\* init:
\*   class Foo { init(a) { this.a = a; if (a > 0) return; print "fell"; } }
\*   var foo = Foo($n);
\*   print foo.a;
\*   var again = foo.init(5);
\*   again.b = 6;
\*   print foo.a;
\*   print foo.b;
\*   var third = foo.init(0);
\*   third.c = 7;
\*   print foo.c;
\*   print foo.a;
\*   class Bar < Foo { }
\*   var bar = Bar(0);
\*   print bar.a;
Program_init(n) ==
    <<
        ClassStmt("Foo", 1, None, << FunctionStmt("init", 1, << Name("a", 1) >>,
            << ExpressionStmt(Set(3, This(0, 1), "a", 1, Variable(2, "a", 1))),
            IfStmt(Binary(6, Variable(4, "a", 1), "Greater", 1, Literal(5, Number(0))),
            ReturnStmt(1, None), None), PrintStmt(Literal(7, String("fell"))) >>) >>),
        VarStmt("foo", 2, Some(Call(10, Variable(8, "Foo", 2), 2, << Literal(9,
            Number(n)) >>))),
        PrintStmt(Get(12, Variable(11, "foo", 3), "a", 3)),
        VarStmt("again", 4, Some(Call(16, Get(14, Variable(13, "foo", 4), "init", 4), 4,
            << Literal(15, Number(5)) >>))),
        ExpressionStmt(Set(20, Variable(17, "again", 5), "b", 5, Literal(19, Number(6)))),
        PrintStmt(Get(22, Variable(21, "foo", 6), "a", 6)),
        PrintStmt(Get(24, Variable(23, "foo", 7), "b", 7)),
        VarStmt("third", 8, Some(Call(28, Get(26, Variable(25, "foo", 8), "init", 8), 8,
            << Literal(27, Number(0)) >>))),
        ExpressionStmt(Set(32, Variable(29, "third", 9), "c", 9, Literal(31, Number(7)))),
        PrintStmt(Get(34, Variable(33, "foo", 10), "c", 10)),
        PrintStmt(Get(36, Variable(35, "foo", 11), "a", 11)),
        ClassStmt("Bar", 12, Some(Variable(37, "Foo", 12)), <<  >>),
        VarStmt("bar", 13, Some(Call(40, Variable(38, "Bar", 13), 13, << Literal(39,
            Number(0)) >>))),
        PrintStmt(Get(42, Variable(41, "bar", 14), "a", 14))
    >>

\* clock:
\*   var t = clock();
\*   print t - t;
\*   print clock;
\*   fun f(a) { print a; }
\*   print f;
\*   f();
Program_clock(n) ==
    <<
        VarStmt("t", 1, Some(Call(1, Variable(0, "clock", 1), 1, <<  >>))),
        PrintStmt(Binary(4, Variable(2, "t", 2), "Minus", 2, Variable(3, "t", 2))),
        PrintStmt(Variable(5, "clock", 3)),
        FunctionStmt("f", 4, << Name("a", 4) >>, << PrintStmt(Variable(6, "a", 4)) >>),
        PrintStmt(Variable(7, "f", 5)),
        ExpressionStmt(Call(9, Variable(8, "f", 6), 6, <<  >>))
    >>

\* class_arity:
\*   class P { init(a, b) { this.s = a + b; } }
\*   class Q < P { }
\*   class Z { }
\*   var q = Q($n, 1);
\*   var q2 = Q(5, 5);
\*   q2.t = 3;
\*   print q.s;
\*   print q2.s;
\*   print Z();
\*   print q.t;
Program_class_arity(n) ==
    <<
        ClassStmt("P", 1, None, << FunctionStmt("init", 1, << Name("a", 1), Name("b",
            1) >>, << ExpressionStmt(Set(5, This(0, 1), "s", 1, Binary(4, Variable(2,
            "a", 1), "Plus", 1, Variable(3, "b", 1)))) >>) >>),
        ClassStmt("Q", 2, Some(Variable(6, "P", 2)), <<  >>),
        ClassStmt("Z", 3, None, <<  >>),
        VarStmt("q", 4, Some(Call(10, Variable(7, "Q", 4), 4, << Literal(8, Number(n)),
            Literal(9, Number(1)) >>))),
        VarStmt("q2", 5, Some(Call(14, Variable(11, "Q", 5), 5, << Literal(12,
            Number(5)), Literal(13, Number(5)) >>))),
        ExpressionStmt(Set(18, Variable(15, "q2", 6), "t", 6, Literal(17, Number(3)))),
        PrintStmt(Get(20, Variable(19, "q", 7), "s", 7)),
        PrintStmt(Get(22, Variable(21, "q2", 8), "s", 8)),
        PrintStmt(Call(24, Variable(23, "Z", 9), 9, <<  >>)),
        PrintStmt(Get(26, Variable(25, "q", 10), "t", 10))
    >>

\* class_arity_error:
\*   class P { init(a, b) { this.s = a + b; } }
\*   class Q < P { }
\*   print Q($n);
Program_class_arity_error(n) ==
    <<
        ClassStmt("P", 1, None, << FunctionStmt("init", 1, << Name("a", 1), Name("b",
            1) >>, << ExpressionStmt(Set(5, This(0, 1), "s", 1, Binary(4, Variable(2,
            "a", 1), "Plus", 1, Variable(3, "b", 1)))) >>) >>),
        ClassStmt("Q", 2, Some(Variable(6, "P", 2)), <<  >>),
        PrintStmt(Call(9, Variable(7, "Q", 3), 3, << Literal(8, Number(n)) >>))
    >>

\* super_chain:
\*   class A { m() { return "A.m"; } k() { return this.tag; } }
\*   class B < A { m() { return "B.m"; } }
\*   class C < B {
\*     m() { return "C.m"; }
\*     k() { return "C.k"; }
\*     up() { return super.m(); }
\*     far() { return super.k(); }
\*     none() { return super.zz; }
\*   }
\*   class D < C { m() { return "D.m"; } k() { return "D.k"; } }
\*   var c = C();
\*   var d = D();
\*   c.tag = "c";
\*   d.tag = $n;
\*   print c.up();
\*   print d.up();
\*   print c.far();
\*   print d.far();
\*   var bound = d.far;
\*   print bound();
\*   print d.none();
Program_super_chain(n) ==
    <<
        ClassStmt("A", 1, None, << FunctionStmt("m", 1, <<  >>, << ReturnStmt(1,
            Some(Literal(0, String("A.m")))) >>), FunctionStmt("k", 1, <<  >>,
            << ReturnStmt(1, Some(Get(2, This(1, 1), "tag", 1))) >>) >>),
        ClassStmt("B", 2, Some(Variable(3, "A", 2)), << FunctionStmt("m", 2, <<  >>,
            << ReturnStmt(2, Some(Literal(4, String("B.m")))) >>) >>),
        ClassStmt("C", 3, Some(Variable(5, "B", 3)), << FunctionStmt("m", 4, <<  >>,
            << ReturnStmt(4, Some(Literal(6, String("C.m")))) >>), FunctionStmt("k", 5,
            <<  >>, << ReturnStmt(5, Some(Literal(7, String("C.k")))) >>),
            FunctionStmt("up", 6, <<  >>, << ReturnStmt(6, Some(Call(9, Super(8, 6, "m",
            6), 6, <<  >>))) >>), FunctionStmt("far", 7, <<  >>, << ReturnStmt(7,
            Some(Call(11, Super(10, 7, "k", 7), 7, <<  >>))) >>), FunctionStmt("none", 8,
            <<  >>, << ReturnStmt(8, Some(Super(12, 8, "zz", 8))) >>) >>),
        ClassStmt("D", 10, Some(Variable(13, "C", 10)), << FunctionStmt("m", 10, <<  >>,
            << ReturnStmt(10, Some(Literal(14, String("D.m")))) >>), FunctionStmt("k",
            10, <<  >>, << ReturnStmt(10, Some(Literal(15, String("D.k")))) >>) >>),
        VarStmt("c", 11, Some(Call(17, Variable(16, "C", 11), 11, <<  >>))),
        VarStmt("d", 12, Some(Call(19, Variable(18, "D", 12), 12, <<  >>))),
        ExpressionStmt(Set(23, Variable(20, "c", 13), "tag", 13, Literal(22,
            String("c")))),
        ExpressionStmt(Set(27, Variable(24, "d", 14), "tag", 14, Literal(26, Number(n)))),
        PrintStmt(Call(30, Get(29, Variable(28, "c", 15), "up", 15), 15, <<  >>)),
        PrintStmt(Call(33, Get(32, Variable(31, "d", 16), "up", 16), 16, <<  >>)),
        PrintStmt(Call(36, Get(35, Variable(34, "c", 17), "far", 17), 17, <<  >>)),
        PrintStmt(Call(39, Get(38, Variable(37, "d", 18), "far", 18), 18, <<  >>)),
        VarStmt("bound", 19, Some(Get(41, Variable(40, "d", 19), "far", 19))),
        PrintStmt(Call(43, Variable(42, "bound", 20), 20, <<  >>)),
        PrintStmt(Call(46, Get(45, Variable(44, "d", 21), "none", 21), 21, <<  >>))
    >>

\* aliases:
\*   class P { put(v) { this.f = v; } get() { return this.f; } }
\*   fun poke(q, v) { q.f = v; return q; }
\*   var o = P();
\*   var other = P();
\*   other.f = "other";
\*   var alias = o;
\*   o.f = 1;
\*   print alias.f;
\*   var back = poke(alias, $n);
\*   print o.f;
\*   o.put(7);
\*   print back.f;
\*   alias.f = 8;
\*   print o.get();
\*   print other.f;
Program_aliases(n) ==
    <<
        ClassStmt("P", 1, None, << FunctionStmt("put", 1, << Name("v", 1) >>,
            << ExpressionStmt(Set(3, This(0, 1), "f", 1, Variable(2, "v", 1))) >>),
            FunctionStmt("get", 1, <<  >>, << ReturnStmt(1, Some(Get(5, This(4, 1), "f",
            1))) >>) >>),
        FunctionStmt("poke", 2, << Name("q", 2), Name("v", 2) >>,
            << ExpressionStmt(Set(9, Variable(6, "q", 2), "f", 2, Variable(8, "v", 2))),
            ReturnStmt(2, Some(Variable(10, "q", 2))) >>),
        VarStmt("o", 3, Some(Call(12, Variable(11, "P", 3), 3, <<  >>))),
        VarStmt("other", 4, Some(Call(14, Variable(13, "P", 4), 4, <<  >>))),
        ExpressionStmt(Set(18, Variable(15, "other", 5), "f", 5, Literal(17,
            String("other")))),
        VarStmt("alias", 6, Some(Variable(19, "o", 6))),
        ExpressionStmt(Set(23, Variable(20, "o", 7), "f", 7, Literal(22, Number(1)))),
        PrintStmt(Get(25, Variable(24, "alias", 8), "f", 8)),
        VarStmt("back", 9, Some(Call(29, Variable(26, "poke", 9), 9, << Variable(27,
            "alias", 9), Literal(28, Number(n)) >>))),
        PrintStmt(Get(31, Variable(30, "o", 10), "f", 10)),
        ExpressionStmt(Call(35, Get(33, Variable(32, "o", 11), "put", 11), 11,
            << Literal(34, Number(7)) >>)),
        PrintStmt(Get(37, Variable(36, "back", 12), "f", 12)),
        ExpressionStmt(Set(41, Variable(38, "alias", 13), "f", 13, Literal(40,
            Number(8)))),
        PrintStmt(Call(44, Get(43, Variable(42, "o", 14), "get", 14), 14, <<  >>)),
        PrintStmt(Get(46, Variable(45, "other", 15), "f", 15))
    >>

\* same_instance:
\*   class P { }
\*   var o = P();
\*   var p = P();
\*   var alias = o;
\*   print o == alias;
\*   print o != alias;
\*   print o == p;
\*   print o != p;
Program_same_instance(n) ==
    <<
        ClassStmt("P", 1, None, <<  >>),
        VarStmt("o", 2, Some(Call(1, Variable(0, "P", 2), 2, <<  >>))),
        VarStmt("p", 3, Some(Call(3, Variable(2, "P", 3), 3, <<  >>))),
        VarStmt("alias", 4, Some(Variable(4, "o", 4))),
        PrintStmt(Binary(7, Variable(5, "o", 5), "EqualEqual", 5, Variable(6, "alias",
            5))),
        PrintStmt(Binary(10, Variable(8, "o", 6), "BangEqual", 6, Variable(9, "alias",
            6))),
        PrintStmt(Binary(13, Variable(11, "o", 7), "EqualEqual", 7, Variable(12, "p", 7))),
        PrintStmt(Binary(16, Variable(14, "o", 8), "BangEqual", 8, Variable(15, "p", 8)))
    >>

\* callables:
\*   class P { m() { return 1; } }
\*   fun f() { return $n; }
\*   fun h() { return $n; }
\*   var g = f;
\*   var o = P();
\*   print f == f;
\*   print f == g;
\*   print f != g;
\*   print f == h;
\*   print o.m == o.m;
\*   print o.m != o.m;
\*   var bound = o.m;
\*   print bound == bound;
\*   print clock == clock;
\*   print P == P;
\*   print f == P;
Program_callables(n) ==
    <<
        ClassStmt("P", 1, None, << FunctionStmt("m", 1, <<  >>, << ReturnStmt(1,
            Some(Literal(0, Number(1)))) >>) >>),
        FunctionStmt("f", 2, <<  >>, << ReturnStmt(2, Some(Literal(1, Number(n)))) >>),
        FunctionStmt("h", 3, <<  >>, << ReturnStmt(3, Some(Literal(2, Number(n)))) >>),
        VarStmt("g", 4, Some(Variable(3, "f", 4))),
        VarStmt("o", 5, Some(Call(5, Variable(4, "P", 5), 5, <<  >>))),
        PrintStmt(Binary(8, Variable(6, "f", 6), "EqualEqual", 6, Variable(7, "f", 6))),
        PrintStmt(Binary(11, Variable(9, "f", 7), "EqualEqual", 7, Variable(10, "g", 7))),
        PrintStmt(Binary(14, Variable(12, "f", 8), "BangEqual", 8, Variable(13, "g", 8))),
        PrintStmt(Binary(17, Variable(15, "f", 9), "EqualEqual", 9, Variable(16, "h", 9))),
        PrintStmt(Binary(22, Get(19, Variable(18, "o", 10), "m", 10), "EqualEqual", 10,
            Get(21, Variable(20, "o", 10), "m", 10))),
        PrintStmt(Binary(27, Get(24, Variable(23, "o", 11), "m", 11), "BangEqual", 11,
            Get(26, Variable(25, "o", 11), "m", 11))),
        VarStmt("bound", 12, Some(Get(29, Variable(28, "o", 12), "m", 12))),
        PrintStmt(Binary(32, Variable(30, "bound", 13), "EqualEqual", 13, Variable(31,
            "bound", 13))),
        PrintStmt(Binary(35, Variable(33, "clock", 14), "EqualEqual", 14, Variable(34,
            "clock", 14))),
        PrintStmt(Binary(38, Variable(36, "P", 15), "EqualEqual", 15, Variable(37, "P",
            15))),
        PrintStmt(Binary(41, Variable(39, "f", 16), "EqualEqual", 16, Variable(40, "P",
            16)))
    >>

\* logic:
\*   var count = 0;
\*   fun tick(v) { count = count + 1; print count; return v; }
\*   print false and tick(1);
\*   print true or tick(2);
\*   print nil and tick(3);
\*   print $n or tick("x");
\*   print nil or tick("right");
\*   print "left" and tick(nil);
\*   print false or false;
\*   print 0 and "zero";
\*   print "" or tick(4);
\*   print count;
Program_logic(n) ==
    <<
        VarStmt("count", 1, Some(Literal(0, Number(0)))),
        FunctionStmt("tick", 2, << Name("v", 2) >>, << ExpressionStmt(Assign(5, "count",
            2, Binary(4, Variable(2, "count", 2), "Plus", 2, Literal(3, Number(1))))),
            PrintStmt(Variable(6, "count", 2)), ReturnStmt(2, Some(Variable(7, "v",
            2))) >>),
        PrintStmt(Logical(12, Literal(8, Bool(FALSE)), "And", Call(11, Variable(9,
            "tick", 3), 3, << Literal(10, Number(1)) >>))),
        PrintStmt(Logical(17, Literal(13, Bool(TRUE)), "Or", Call(16, Variable(14,
            "tick", 4), 4, << Literal(15, Number(2)) >>))),
        PrintStmt(Logical(22, Literal(18, Nil), "And", Call(21, Variable(19, "tick", 5),
            5, << Literal(20, Number(3)) >>))),
        PrintStmt(Logical(27, Literal(23, Number(n)), "Or", Call(26, Variable(24, "tick",
            6), 6, << Literal(25, String("x")) >>))),
        PrintStmt(Logical(32, Literal(28, Nil), "Or", Call(31, Variable(29, "tick", 7),
            7, << Literal(30, String("right")) >>))),
        PrintStmt(Logical(37, Literal(33, String("left")), "And", Call(36, Variable(34,
            "tick", 8), 8, << Literal(35, Nil) >>))),
        PrintStmt(Logical(40, Literal(38, Bool(FALSE)), "Or", Literal(39, Bool(FALSE)))),
        PrintStmt(Logical(43, Literal(41, Number(0)), "And", Literal(42, String("zero")))),
        PrintStmt(Logical(48, Literal(44, String("")), "Or", Call(47, Variable(45,
            "tick", 11), 11, << Literal(46, Number(4)) >>))),
        PrintStmt(Variable(49, "count", 12))
    >>

\* order:
\*   fun say(v) { print v; return v; }
\*   fun add(a, b) { print "body"; return a + b; }
\*   fun pick() { print "callee"; return add; }
\*   print pick()(say(1), say($n));
\*   print say(2) - say(3);
\*   print say(1) + say(2) * say(3);
\*   var x = 0;
\*   print add(x = 3, x);
\*   fun bump(v) { x = v; return v; }
\*   print bump(5) + x;
\*   class Q { }
\*   var q = Q();
\*   fun put(v) { q.f = v; return v; }
\*   print put(4) * q.f;
Program_order(n) ==
    <<
        FunctionStmt("say", 1, << Name("v", 1) >>, << PrintStmt(Variable(0, "v", 1)),
            ReturnStmt(1, Some(Variable(1, "v", 1))) >>),
        FunctionStmt("add", 2, << Name("a", 2), Name("b", 2) >>, << PrintStmt(Literal(2,
            String("body"))), ReturnStmt(2, Some(Binary(5, Variable(3, "a", 2), "Plus",
            2, Variable(4, "b", 2)))) >>),
        FunctionStmt("pick", 3, <<  >>, << PrintStmt(Literal(6, String("callee"))),
            ReturnStmt(3, Some(Variable(7, "add", 3))) >>),
        PrintStmt(Call(16, Call(9, Variable(8, "pick", 4), 4, <<  >>), 4, << Call(12,
            Variable(10, "say", 4), 4, << Literal(11, Number(1)) >>), Call(15,
            Variable(13, "say", 4), 4, << Literal(14, Number(n)) >>) >>)),
        PrintStmt(Binary(23, Call(19, Variable(17, "say", 5), 5, << Literal(18,
            Number(2)) >>), "Minus", 5, Call(22, Variable(20, "say", 5), 5,
            << Literal(21, Number(3)) >>))),
        PrintStmt(Binary(34, Call(26, Variable(24, "say", 6), 6, << Literal(25,
            Number(1)) >>), "Plus", 6, Binary(33, Call(29, Variable(27, "say", 6), 6,
            << Literal(28, Number(2)) >>), "Star", 6, Call(32, Variable(30, "say", 6), 6,
            << Literal(31, Number(3)) >>)))),
        VarStmt("x", 7, Some(Literal(35, Number(0)))),
        PrintStmt(Call(41, Variable(36, "add", 8), 8, << Assign(39, "x", 8, Literal(38,
            Number(3))), Variable(40, "x", 8) >>)),
        FunctionStmt("bump", 9, << Name("v", 9) >>, << ExpressionStmt(Assign(44, "x", 9,
            Variable(43, "v", 9))), ReturnStmt(9, Some(Variable(45, "v", 9))) >>),
        PrintStmt(Binary(50, Call(48, Variable(46, "bump", 10), 10, << Literal(47,
            Number(5)) >>), "Plus", 10, Variable(49, "x", 10))),
        ClassStmt("Q", 11, None, <<  >>),
        VarStmt("q", 12, Some(Call(52, Variable(51, "Q", 12), 12, <<  >>))),
        FunctionStmt("put", 13, << Name("v", 13) >>, << ExpressionStmt(Set(56,
            Variable(53, "q", 13), "f", 13, Variable(55, "v", 13))), ReturnStmt(13,
            Some(Variable(57, "v", 13))) >>),
        PrintStmt(Binary(63, Call(60, Variable(58, "put", 14), 14, << Literal(59,
            Number(4)) >>), "Star", 14, Get(62, Variable(61, "q", 14), "f", 14)))
    >>

\* assign:
\*   var a = 1;
\*   {
\*     var b = 2;
\*     fun f(p) { var v = p = $n; print v; print p; print b = a = 7; }
\*     f(0);
\*     print a;
\*     print b;
\*     {
\*       u = 3;
\*     }
\*     print "never";
\*   }
Program_assign(n) ==
    <<
        VarStmt("a", 1, Some(Literal(0, Number(1)))),
        BlockStmt(<< VarStmt("b", 3, Some(Literal(1, Number(2)))), FunctionStmt("f", 4,
            << Name("p", 4) >>, << VarStmt("v", 4, Some(Assign(4, "p", 4, Literal(3,
            Number(n))))), PrintStmt(Variable(5, "v", 4)), PrintStmt(Variable(6, "p",
            4)), PrintStmt(Assign(11, "b", 4, Assign(10, "a", 4, Literal(9,
            Number(7))))) >>), ExpressionStmt(Call(14, Variable(12, "f", 5), 5,
            << Literal(13, Number(0)) >>)), PrintStmt(Variable(15, "a", 6)),
            PrintStmt(Variable(16, "b", 7)), BlockStmt(<< ExpressionStmt(Assign(19, "u",
            9, Literal(18, Number(3)))) >>), PrintStmt(Literal(20, String("never"))) >>)
    >>

\* arity:
\*   fun say(v) { print v; return v; }
\*   fun two(a, b) { print "body"; return a; }
\*   class K { init(a) { print "init"; } }
\*   var text = "text";
\*   if ($n == 0) two(say(1));
\*   if ($n == 1) K();
\*   if ($n == 2) clock(say(1));
\*   text(say(9));
Program_arity(n) ==
    <<
        FunctionStmt("say", 1, << Name("v", 1) >>, << PrintStmt(Variable(0, "v", 1)),
            ReturnStmt(1, Some(Variable(1, "v", 1))) >>),
        FunctionStmt("two", 2, << Name("a", 2), Name("b", 2) >>, << PrintStmt(Literal(2,
            String("body"))), ReturnStmt(2, Some(Variable(3, "a", 2))) >>),
        ClassStmt("K", 3, None, << FunctionStmt("init", 3, << Name("a", 3) >>,
            << PrintStmt(Literal(4, String("init"))) >>) >>),
        VarStmt("text", 4, Some(Literal(5, String("text")))),
        IfStmt(Binary(8, Literal(6, Number(n)), "EqualEqual", 5, Literal(7, Number(0))),
            ExpressionStmt(Call(13, Variable(9, "two", 5), 5, << Call(12, Variable(10,
            "say", 5), 5, << Literal(11, Number(1)) >>) >>)), None),
        IfStmt(Binary(16, Literal(14, Number(n)), "EqualEqual", 6, Literal(15,
            Number(1))), ExpressionStmt(Call(18, Variable(17, "K", 6), 6, <<  >>)), None),
        IfStmt(Binary(21, Literal(19, Number(n)), "EqualEqual", 7, Literal(20,
            Number(2))), ExpressionStmt(Call(26, Variable(22, "clock", 7), 7, << Call(25,
            Variable(23, "say", 7), 7, << Literal(24, Number(1)) >>) >>)), None),
        ExpressionStmt(Call(31, Variable(27, "text", 8), 8, << Call(30, Variable(28,
            "say", 8), 8, << Literal(29, Number(9)) >>) >>))
    >>

\* abort:
\*   var g = 0;
\*   class T { m() { return this.missing; } }
\*   fun deep(k) {
\*     while (k < 5) {
\*       {
\*         g = g + 1;
\*         print g;
\*         if (k == 1) {
\*           if ($n == 0) print undefined_v;
\*           if ($n == 1) print 1 +
\*             nil;
\*           if ($n == 2) print T().m();
\*           print k.field;
\*         }
\*         print "after if";
\*       }
\*       k = k + 1;
\*     }
\*     print "after loop";
\*   }
\*   deep(0);
\*   print "after call";
Program_abort(n) ==
    <<
        VarStmt("g", 1, Some(Literal(0, Number(0)))),
        ClassStmt("T", 2, None, << FunctionStmt("m", 2, <<  >>, << ReturnStmt(2,
            Some(Get(2, This(1, 2), "missing", 2))) >>) >>),
        FunctionStmt("deep", 3, << Name("k", 3) >>, << WhileStmt(Binary(5, Variable(3,
            "k", 4), "Less", 4, Literal(4, Number(5))),
            BlockStmt(<< BlockStmt(<< ExpressionStmt(Assign(10, "g", 6, Binary(9,
            Variable(7, "g", 6), "Plus", 6, Literal(8, Number(1))))),
            PrintStmt(Variable(11, "g", 7)), IfStmt(Binary(14, Variable(12, "k", 8),
            "EqualEqual", 8, Literal(13, Number(1))), BlockStmt(<< IfStmt(Binary(17,
            Literal(15, Number(n)), "EqualEqual", 9, Literal(16, Number(0))),
            PrintStmt(Variable(18, "undefined_v", 9)), None), IfStmt(Binary(21,
            Literal(19, Number(n)), "EqualEqual", 10, Literal(20, Number(1))),
            PrintStmt(Binary(24, Literal(22, Number(1)), "Plus", 10, Literal(23, Nil))),
            None), IfStmt(Binary(27, Literal(25, Number(n)), "EqualEqual", 12,
            Literal(26, Number(2))), PrintStmt(Call(31, Get(30, Call(29, Variable(28,
            "T", 12), 12, <<  >>), "m", 12), 12, <<  >>)), None), PrintStmt(Get(33,
            Variable(32, "k", 13), "field", 13)) >>), None), PrintStmt(Literal(34,
            String("after if"))) >>), ExpressionStmt(Assign(39, "k", 17, Binary(38,
            Variable(36, "k", 17), "Plus", 17, Literal(37, Number(1))))) >>)),
            PrintStmt(Literal(40, String("after loop"))) >>),
        ExpressionStmt(Call(43, Variable(41, "deep", 21), 21, << Literal(42,
            Number(0)) >>)),
        PrintStmt(Literal(44, String("after call")))
    >>

\* returns_ok:
\*   fun f() { return 1; }
\*   class A {
\*     init() { return; }
\*     m() { return 2; }
\*   }
\*   fun g() {
\*     if (true) { return; }
\*     while (false) return 3;
\*   }
\*   print f();
\*   print A().m();
\*   print g();
Program_returns_ok(n) ==
    <<
        FunctionStmt("f", 1, <<  >>, << ReturnStmt(1, Some(Literal(0, Number(1)))) >>),
        ClassStmt("A", 2, None, << FunctionStmt("init", 3, <<  >>, << ReturnStmt(3,
            None) >>), FunctionStmt("m", 4, <<  >>, << ReturnStmt(4, Some(Literal(1,
            Number(2)))) >>) >>),
        FunctionStmt("g", 6, <<  >>, << IfStmt(Literal(2, Bool(TRUE)),
            BlockStmt(<< ReturnStmt(7, None) >>), None), WhileStmt(Literal(3,
            Bool(FALSE)), ReturnStmt(8, Some(Literal(4, Number(3))))) >>),
        PrintStmt(Call(6, Variable(5, "f", 10), 10, <<  >>)),
        PrintStmt(Call(10, Get(9, Call(8, Variable(7, "A", 11), 11, <<  >>), "m", 11),
            11, <<  >>)),
        PrintStmt(Call(12, Variable(11, "g", 12), 12, <<  >>))
    >>

\* returns_bad:
\*   return 1;
\*   fun f() { return 2; }
\*   { return; }
\*   class A {
\*     init() {
\*       fun h() { return 3; }
\*       return 4;
\*     }
\*   }
\*   print f();
Program_returns_bad(n) ==
    <<
        ReturnStmt(1, Some(Literal(0, Number(1)))),
        FunctionStmt("f", 2, <<  >>, << ReturnStmt(2, Some(Literal(1, Number(2)))) >>),
        BlockStmt(<< ReturnStmt(3, None) >>),
        ClassStmt("A", 4, None, << FunctionStmt("init", 5, <<  >>, << FunctionStmt("h",
            6, <<  >>, << ReturnStmt(6, Some(Literal(2, Number(3)))) >>), ReturnStmt(7,
            Some(Literal(3, Number(4)))) >>) >>),
        PrintStmt(Call(5, Variable(4, "f", 10), 10, <<  >>))
    >>

\* return_after_error:
\*   class A {
\*     init() { return 1; }
\*   }
\*   return;
\*   print "evaluated";
Program_return_after_error(n) ==
    <<
        ClassStmt("A", 1, None, << FunctionStmt("init", 2, <<  >>, << ReturnStmt(2,
            Some(Literal(0, Number(1)))) >>) >>),
        ReturnStmt(4, None),
        PrintStmt(Literal(1, String("evaluated")))
    >>

\* leak_block:
\*   {
\*     var x;
\*     var x;
\*   }
\*   var a = 1;
\*   var a = 2;
\*   print a;
Program_leak_block(n) ==
    <<
        BlockStmt(<< VarStmt("x", 2, None), VarStmt("x", 3, None) >>),
        VarStmt("a", 5, Some(Literal(0, Number(1)))),
        VarStmt("a", 6, Some(Literal(1, Number(2)))),
        PrintStmt(Variable(2, "a", 7))
    >>

\* redeclare:
\*   {
\*     var a;
\*     var a;
\*   }
\*   {
\*     fun f() {}
\*     fun f() {}
\*   }
\*   {
\*     class K {}
\*     class K {}
\*   }
\*   fun g(p,
\*         p) {}
\*   fun h(q) {
\*     var q;
\*   }
Program_redeclare(n) ==
    <<
        BlockStmt(<< VarStmt("a", 2, None), VarStmt("a", 3, None) >>),
        BlockStmt(<< FunctionStmt("f", 6, <<  >>, <<  >>), FunctionStmt("f", 7, <<  >>,
            <<  >>) >>),
        BlockStmt(<< ClassStmt("K", 10, None, <<  >>), ClassStmt("K", 11, None,
            <<  >>) >>),
        FunctionStmt("g", 13, << Name("p", 13), Name("p", 14) >>, <<  >>),
        FunctionStmt("h", 15, << Name("q", 15) >>, << VarStmt("q", 16, None) >>)
    >>

\* redefined:
\*   var a = 5;
\*   print a;
\*   var a = 10;
\*   print a;
\*   fun f() { return 1; }
\*   fun f() { return 2; }
\*   print f();
Program_redefined(n) ==
    <<
        VarStmt("a", 1, Some(Literal(0, Number(5)))),
        PrintStmt(Variable(1, "a", 2)),
        VarStmt("a", 3, Some(Literal(2, Number(10)))),
        PrintStmt(Variable(3, "a", 4)),
        FunctionStmt("f", 5, <<  >>, << ReturnStmt(5, Some(Literal(4, Number(1)))) >>),
        FunctionStmt("f", 6, <<  >>, << ReturnStmt(6, Some(Literal(5, Number(2)))) >>),
        PrintStmt(Call(7, Variable(6, "f", 7), 7, <<  >>))
    >>

\* self_init:
\*   {
\*     var a = a;
\*   }
\*   var b = 1;
\*   {
\*     var b = b;
\*   }
Program_self_init(n) ==
    <<
        BlockStmt(<< VarStmt("a", 2, Some(Variable(0, "a", 2))) >>),
        VarStmt("b", 4, Some(Literal(1, Number(1)))),
        BlockStmt(<< VarStmt("b", 6, Some(Variable(2, "b", 6))) >>)
    >>

\* self_init_global:
\*   var a = 1;
\*   var a = a;
\*   print a;
\*   var c = c;
Program_self_init_global(n) ==
    <<
        VarStmt("a", 1, Some(Literal(0, Number(1)))),
        VarStmt("a", 2, Some(Variable(1, "a", 2))),
        PrintStmt(Variable(2, "a", 3)),
        VarStmt("c", 4, Some(Variable(3, "c", 4)))
    >>

\* leak_self_init:
\*   {
\*     var x;
\*     var x;
\*   }
\*   var a = a;
Program_leak_self_init(n) ==
    <<
        BlockStmt(<< VarStmt("x", 2, None), VarStmt("x", 3, None) >>),
        VarStmt("a", 5, Some(Variable(0, "a", 5)))
    >>

\* self_inherit:
\*   class X < X {}
\*   {
\*     class Y < Y {}
\*   }
\*   fun f() {
\*     class Z < Z {}
\*   }
\*   print "evaluated";
Program_self_inherit(n) ==
    <<
        ClassStmt("X", 1, Some(Variable(0, "X", 1)), <<  >>),
        BlockStmt(<< ClassStmt("Y", 3, Some(Variable(1, "Y", 3)), <<  >>) >>),
        FunctionStmt("f", 5, <<  >>, << ClassStmt("Z", 6, Some(Variable(2, "Z", 6)),
            <<  >>) >>),
        PrintStmt(Literal(3, String("evaluated")))
    >>

\* self_inherit_redeclared:
\*   {
\*     var X;
\*     class X < X {}
\*   }
\*   print "evaluated";
Program_self_inherit_redeclared(n) ==
    <<
        BlockStmt(<< VarStmt("X", 2, None), ClassStmt("X", 3, Some(Variable(0, "X", 3)),
            <<  >>) >>),
        PrintStmt(Literal(1, String("evaluated")))
    >>

(***************************************************************************)
(* Programs with `for`: what Parser::parse gives for the tokens of their   *)
(* text.  The text is written on one line; 99 stands for the argument.     *)
(***************************************************************************)
\* for_order:
\*   fun init() { print "init"; return 0; }
\*   fun cond(i) { print "cond"; return i < $n; }
\*   fun incr(i) { print "incr"; return i + 1; }
\*   for (var i = init(); cond(i); i = incr(i)) print i;
\* for_return:
\*   fun incr(i) { print "incr"; return i + 1; }
\*   fun bar() { for (var i = 0;; i = incr(i)) { print i; if (i >= $n) return i; } }
\*   print bar();
\* for_scope:
\*   var i = 7;
\*   for (var i = 0; i < $n; i = i + 1) print i;
\*   print i;
\* for_gone:
\*   for (var j = 0; j < $n; j = j + 1) print j;
\*   print j;
ForText(name) ==
    CASE name = "for_order" ->
            << "fun init() { print \"init\"; return 0; }",
               "fun cond(i) { print \"cond\"; return i < 99; }",
               "fun incr(i) { print \"incr\"; return i + 1; }",
               "for (var i = init(); cond(i); i = incr(i))", "print i;" >>
      [] name = "for_return" ->
            << "fun incr(i) { print \"incr\"; return i + 1; }",
               "fun bar() {", "for (var i = 0;; i = incr(i)) {", "print i;",
               "if (i >= 99) return i;", "} }", "print bar();" >>
      [] name = "for_scope" ->
            << "var i = 7;", "for (var i = 0; i < 99; i = i + 1) print i;", "print i;" >>
      [] name = "for_gone" ->
            << "for (var j = 0; j < 99; j = j + 1) print j;", "print j;" >>

ForPrograms == {"for_order", "for_return", "for_scope", "for_gone"}

\* The tokens Scanner::scan_tokens gives for each piece of these texts.
ForTokens ==
    [text \in UNION {{ForText(name)[i] : i \in DOMAIN ForText(name)} : name \in ForPrograms}
              \cup {""} |->
        scan_tokens(Scanner_new(chars(text))).tokens]

\* The tokens of the pieces from the i-th on, Eof last, with n for 99.
RECURSIVE ForTokensFrom(_, _, _)
ForTokensFrom(texts, i, n) ==
    IF i > Len(texts) THEN ForTokens[""]
    ELSE [k \in 1..(Len(ForTokens[texts[i]]) - 1) |->
             IF ForTokens[texts[i]][k].literal = Number(99)
             THEN Token("Number", ToString(n), Number(n), 1)
             ELSE ForTokens[texts[i]][k]]
         \o ForTokensFrom(texts, i + 1, n)

\* What Parser::parse gives for the tokens of the text.
Program_for(name, n) == parse(Parse_new(ForTokensFrom(ForText(name), 1, n))).statements

\* The same statements written out, as the interpreter is given them.
Program_for_order(n) ==
    <<
        FunctionStmt("init", 1, <<  >>, << PrintStmt(Literal(0, String("init"))),
            ReturnStmt(1, Some(Literal(1, Number(0)))) >>),
        FunctionStmt("cond", 1, << Name("i", 1) >>, << PrintStmt(Literal(2,
            String("cond"))), ReturnStmt(1, Some(Binary(5, Variable(3, "i", 1), "Less",
            1, Literal(4, Number(n))))) >>),
        FunctionStmt("incr", 1, << Name("i", 1) >>, << PrintStmt(Literal(6,
            String("incr"))), ReturnStmt(1, Some(Binary(9, Variable(7, "i", 1), "Plus",
            1, Literal(8, Number(1))))) >>),
        BlockStmt(<< VarStmt("i", 1, Some(Call(11, Variable(10, "init", 1), 1, <<  >>))),
            WhileStmt(Call(14, Variable(12, "cond", 1), 1, << Variable(13, "i", 1) >>),
            BlockStmt(<< PrintStmt(Variable(20, "i", 1)), ExpressionStmt(Assign(19, "i",
            1, Call(18, Variable(16, "incr", 1), 1, << Variable(17, "i", 1) >>))) >>)) >>)
    >>

Program_for_return(n) ==
    <<
        FunctionStmt("incr", 1, << Name("i", 1) >>, << PrintStmt(Literal(0,
            String("incr"))), ReturnStmt(1, Some(Binary(3, Variable(1, "i", 1), "Plus",
            1, Literal(2, Number(1))))) >>),
        FunctionStmt("bar", 1, <<  >>, << BlockStmt(<< VarStmt("i", 1, Some(Literal(4,
            Number(0)))), WhileStmt(Literal(15, Bool(TRUE)),
            BlockStmt(<< BlockStmt(<< PrintStmt(Variable(10, "i", 1)), IfStmt(Binary(13,
            Variable(11, "i", 1), "GreaterEqual", 1, Literal(12, Number(n))),
            ReturnStmt(1, Some(Variable(14, "i", 1))), None) >>),
            ExpressionStmt(Assign(9, "i", 1, Call(8, Variable(6, "incr", 1), 1,
            << Variable(7, "i", 1) >>))) >>)) >>) >>),
        PrintStmt(Call(17, Variable(16, "bar", 1), 1, <<  >>))
    >>

Program_for_scope(n) ==
    <<
        VarStmt("i", 1, Some(Literal(0, Number(7)))),
        BlockStmt(<< VarStmt("i", 1, Some(Literal(1, Number(0)))), WhileStmt(Binary(4,
            Variable(2, "i", 1), "Less", 1, Literal(3, Number(n))),
            BlockStmt(<< PrintStmt(Variable(10, "i", 1)), ExpressionStmt(Assign(9, "i",
            1, Binary(8, Variable(6, "i", 1), "Plus", 1, Literal(7, Number(1))))) >>)) >>),
        PrintStmt(Variable(11, "i", 1))
    >>

Program_for_gone(n) ==
    <<
        BlockStmt(<< VarStmt("j", 1, Some(Literal(0, Number(0)))), WhileStmt(Binary(3,
            Variable(1, "j", 1), "Less", 1, Literal(2, Number(n))),
            BlockStmt(<< PrintStmt(Variable(9, "j", 1)), ExpressionStmt(Assign(8, "j", 1,
            Binary(7, Variable(5, "j", 1), "Plus", 1, Literal(6, Number(1))))) >>)) >>),
        PrintStmt(Variable(10, "j", 1))
    >>

(***************************************************************************)
(* The files given to the driver (main.rs): their contents, what           *)
(* Scanner::scan_tokens gives for them and what Parser::parse gives for    *)
(* the tokens.  File 0 cannot be read.                                     *)
(***************************************************************************)
DriverFiles ==
    << "print 1; print 2;", "print 1; @ print 2;", "print 1; print ; print 2;",
       "print 1; { var a; var a; }", "print 1; print nope; print 2;" >>

DriverScanned ==
    [k \in DOMAIN DriverFiles |-> scan_tokens(Scanner_new(chars(DriverFiles[k])))]

DriverParsed == [k \in DOMAIN DriverFiles |-> parse(Parse_new(DriverScanned[k].tokens))]

WithArgument == {"for_order", "for_return", "for_scope", "for_gone",
                 "shadow", "depths", "counter", "shared", "return_loop",
                 "error_in_call", "inherit", "bad_super", "factorial", "caller_locals",
                 "init", "abort", "arity", "assign", "order", "logic", "callables",
                 "aliases", "super_chain", "class_arity", "class_arity_error"}

Fixed == {"return_after_error", "returns_bad", "returns_ok", "lexical",
          "lexical_global", "clock", "same_instance", "leak_block", "redeclare",
          "redefined", "self_init", "self_init_global", "leak_self_init",
          "self_inherit", "self_inherit_redeclared"}

Inputs == (WithArgument \X (0..MaxArg)) \cup (Fixed \X {0})

Program(name, n) ==
    CASE name = "shadow" -> Program_shadow(n)
      [] name = "depths" -> Program_depths(n)
      [] name = "lexical" -> Program_lexical(n)
      [] name = "lexical_global" -> Program_lexical_global(n)
      [] name = "counter" -> Program_counter(n)
      [] name = "shared" -> Program_shared(n)
      [] name = "return_loop" -> Program_return_loop(n)
      [] name = "error_in_call" -> Program_error_in_call(n)
      [] name = "inherit" -> Program_inherit(n)
      [] name = "bad_super" -> Program_bad_super(n)
      [] name = "factorial" -> Program_factorial(n)
      [] name = "caller_locals" -> Program_caller_locals(n)
      [] name = "init" -> Program_init(n)
      [] name = "clock" -> Program_clock(n)
      [] name = "self_inherit_redeclared" -> Program_self_inherit_redeclared(n)
      [] name = "self_inherit" -> Program_self_inherit(n)
      [] name = "leak_self_init" -> Program_leak_self_init(n)
      [] name = "self_init_global" -> Program_self_init_global(n)
      [] name = "self_init" -> Program_self_init(n)
      [] name = "redefined" -> Program_redefined(n)
      [] name = "redeclare" -> Program_redeclare(n)
      [] name = "leak_block" -> Program_leak_block(n)
      [] name = "return_after_error" -> Program_return_after_error(n)
      [] name = "returns_bad" -> Program_returns_bad(n)
      [] name = "returns_ok" -> Program_returns_ok(n)
      [] name = "abort" -> Program_abort(n)
      [] name = "arity" -> Program_arity(n)
      [] name = "assign" -> Program_assign(n)
      [] name = "order" -> Program_order(n)
      [] name = "logic" -> Program_logic(n)
      [] name = "callables" -> Program_callables(n)
      [] name = "same_instance" -> Program_same_instance(n)
      [] name = "aliases" -> Program_aliases(n)
      [] name = "super_chain" -> Program_super_chain(n)
      [] name = "class_arity_error" -> Program_class_arity_error(n)
      [] name = "class_arity" -> Program_class_arity(n)
      [] name = "for_order" -> Program_for_order(n)
      [] name = "for_return" -> Program_for_return(n)
      [] name = "for_scope" -> Program_for_scope(n)
      [] name = "for_gone" -> Program_for_gone(n)

Statements == Program(prog[1], prog[2])

(***************************************************************************)
(* The run of one input: Interpreter::new, Resolver::resolve_stmts, then   *)
(* Interpreter::execute when the resolver returned Ok.                     *)
(***************************************************************************)
Init ==
    /\ \/ prog \in Inputs /\ phase = "resolve"
       \/ prog = << "repl", << >> >> /\ phase = "prompt"
       \/ prog \in {"run_file"} \X (0..Len(DriverFiles)) /\ phase = "file"
    /\ errors = << >>
    /\ locals = EmptyMap
    /\ envs = << [enclosing |-> 0, values |-> Put(EmptyMap, "clock", DynamicFunction)] >>
    /\ environment = globals
    /\ classes = << >>
    /\ instances = << >>
    /\ output = << >>
    /\ stack = << >>
    /\ ctrl = Halt
    /\ calls = << >>
    /\ scanner = Scanner_new(<< >>)
    /\ parser = << >>
    /\ chunk = Chunk_new
    /\ written = << >>
    /\ vm = VirtualMachine_new
    /\ loxvm = NoProcess

\* Resolver::new and resolve_stmts on the whole program; the depths go to
\* Interpreter.locals as they are found.
Resolve ==
    /\ phase = "resolve"
    /\ LET r == resolve_stmts(Resolver_new(locals), Statements)
       IN  /\ locals' = r.st.locals
           /\ IF IsOk(r)
              THEN /\ phase' = IF Len(Statements) = 0 THEN "done" ELSE "run"
                   /\ errors' = errors
                   /\ stack' = IF Len(Statements) = 0 THEN << >>
                               ELSE << [f |-> "execute", statements |-> Statements,
                                        i |-> 1] >>
                   /\ ctrl' = IF Len(Statements) = 0 THEN Halt ELSE Exec(Statements[1])
              ELSE /\ phase' = "static_error"
                   /\ errors' = r.err
                   /\ UNCHANGED <<stack, ctrl>>
    /\ UNCHANGED <<standalone, prog, envs, environment, classes, instances, output, calls>>

(***************************************************************************)
(* The prompt: main.rs run_prompt and run.  One Interpreter is made before *)
(* the loop; every line read goes through run on that Interpreter.  The    *)
(* input of a session is <<"repl", the results of read_line so far>>.      *)
(***************************************************************************)
\* The most lines one session reads.
MaxLines == 3

\* Result of stdin.read_line: the line with its newline, or an I/O error
\* (for example bytes that are not UTF-8).
ReadOk(input) == [ok |-> TRUE, input |-> input]
ReadErr == [ok |-> FALSE, input |-> ""]

\* char::is_whitespace, for the characters of the lines used.
is_whitespace(c) == c \in {" ", "\n", "\t", "\r"}

\* str::trim_start and str::trim_end.
RECURSIVE trim_start(_)
trim_start(s) ==
    IF Len(s) > 0 /\ is_whitespace(SubSeq(s, 1, 1))
    THEN trim_start(SubSeq(s, 2, Len(s)))
    ELSE s

RECURSIVE trim_end(_)
trim_end(s) ==
    IF Len(s) > 0 /\ is_whitespace(SubSeq(s, Len(s), Len(s)))
    THEN trim_end(SubSeq(s, 1, Len(s) - 1))
    ELSE s

trim(s) == trim_end(trim_start(s))

\* What Scanner::scan_tokens and Parser::parse give run for each line of the
\* sessions: the statements, or an error.  Every line has its own Parser, so
\* the ids start at 0 on every line.
Parser_parse(source) ==
    CASE source = "var g = 1;\n" ->
            [ok |-> TRUE, statements |-> << VarStmt("g", 1, Some(Literal(0, Number(1)))) >>]
      [] source = "fun f() { return 2; }\n" ->
            [ok |-> TRUE, statements |->
                << FunctionStmt("f", 1, <<  >>,
                       << ReturnStmt(1, Some(Literal(0, Number(2)))) >>) >>]
      [] source = "class C { m() { return 3; } }\n" ->
            [ok |-> TRUE, statements |->
                << ClassStmt("C", 1, None, << FunctionStmt("m", 1, <<  >>,
                       << ReturnStmt(1, Some(Literal(0, Number(3)))) >>) >>) >>]
      [] source = "print g;\n" ->
            [ok |-> TRUE, statements |-> << PrintStmt(Variable(0, "g", 1)) >>]
      [] source = "print f();\n" ->
            [ok |-> TRUE, statements |->
                << PrintStmt(Call(1, Variable(0, "f", 1), 1, <<  >>)) >>]
      [] source = "print C().m();\n" ->
            [ok |-> TRUE, statements |->
                << PrintStmt(Call(3, Get(2, Call(1, Variable(0, "C", 1), 1, <<  >>),
                       "m", 1), 1, <<  >>)) >>]
      [] source = "print nope;\n" ->
            [ok |-> TRUE, statements |-> << PrintStmt(Variable(0, "nope", 1)) >>]
      [] source = "var = ;\n" ->
            [ok |-> FALSE, statements |-> << >>]
      [] source = "{ var a = 1; { print a; } }\n" ->
            [ok |-> TRUE, statements |->
                << BlockStmt(<< VarStmt("a", 1, Some(Literal(0, Number(1)))),
                       BlockStmt(<< PrintStmt(Variable(1, "a", 1)) >>) >>) >>]
      [] source = "var x = 5; print x;\n" ->
            [ok |-> TRUE, statements |->
                << VarStmt("x", 1, Some(Literal(0, Number(5)))),
                   PrintStmt(Variable(1, "x", 1)) >>]
      [] source = "fun f() { var c = 1; { return c; } }\n" ->
            [ok |-> TRUE, statements |->
                << FunctionStmt("f", 1, <<  >>,
                       << VarStmt("c", 1, Some(Literal(0, Number(1)))),
                          BlockStmt(<< ReturnStmt(1, Some(Variable(1, "c", 1))) >>) >>) >>]
      [] source = "{ var b = 2; { { print b; } } }\n" ->
            [ok |-> TRUE, statements |->
                << BlockStmt(<< VarStmt("b", 1, Some(Literal(0, Number(2)))),
                       BlockStmt(<< BlockStmt(<< PrintStmt(Variable(1, "b", 1)) >>) >>) >>) >>]

\* Variant of run_prompt_break that also leaves the loop on a line that does
\* not parse (for comparison).
run_prompt_break_on_error(read) ==
    \/ ~read.ok
    \/ trim(read.input) = ""
    \/ ~Parser_parse(read.input).ok

\* run_prompt leaves the loop when read_line fails or the trimmed line is
\* empty.
run_prompt_break(read) ==
    \/ ~read.ok
    \/ trim(read.input) = ""

\* The lines a session is made of, and what read_line can give.
Lines == {"var g = 1;\n", "fun f() { return 2; }\n", "class C { m() { return 3; } }\n",
          "print g;\n", "print f();\n", "print C().m();\n", "print nope;\n",
          "var = ;\n", "\n", "  \n"}

ReadLine == {ReadOk(input) : input \in Lines} \cup {ReadErr}

\* One turn of the loop of run_prompt, up to the call of Interpreter::execute
\* in run: read a line; leave the loop on a read error or an empty line;
\* return 65 without executing when the line does not scan or parse;
\* otherwise execute the statements on the one Interpreter.  The turn starts
\* when the run of the previous line has returned, whatever its exit code.
run_prompt ==
    /\ prog[1] = "repl"
    /\ phase \in {"prompt", "done", "failed"}
    /\ Len(prog[2]) < MaxLines
    /\ \E read \in ReadLine :
          /\ prog' = << "repl", Append(prog[2], read) >>
          /\ IF run_prompt_break(read)
             THEN /\ phase' = "exit"
                  /\ errors' = IF read.ok THEN << >> ELSE << "Error reading input" >>
                  /\ stack' = << >>
                  /\ ctrl' = Halt
             ELSE LET parse_result == Parser_parse(read.input)
                      statements == parse_result.statements
                  IN  IF ~parse_result.ok
                      THEN /\ phase' = "prompt"
                           /\ errors' = << >>
                           /\ stack' = << >>
                           /\ ctrl' = Halt
                      ELSE /\ phase' = IF Len(statements) = 0 THEN "prompt" ELSE "run"
                           /\ errors' = << >>
                           /\ stack' = IF Len(statements) = 0 THEN << >>
                                       ELSE << [f |-> "execute",
                                                statements |-> statements, i |-> 1] >>
                           /\ ctrl' = IF Len(statements) = 0 THEN Halt
                                      ELSE Exec(statements[1])
    /\ UNCHANGED <<standalone, locals, envs, environment, classes, instances, output,
                   calls>>


\* main.rs: exit codes.
EXIT_CODE_OK == 0

EXIT_CODE_CMD_LINE_ERROR == 64

EXIT_CODE_DATA_ERROR == 65

EXIT_CODE_SCRIPT_ERROR == 70

\* run_file and the stages of run before Interpreter::execute: the file is
\* read, scanned and parsed; the scanner's flag and the parser's result are
\* looked at after both have run, and then the statements are executed.
run_file ==
    /\ prog[1] = "run_file"
    /\ phase = "file"
    /\ IF prog[2] = 0
       THEN /\ phase' = "io_error"
            /\ errors' = << "Error reading file" >>
            /\ UNCHANGED <<scanner, parser, stack, ctrl>>
       ELSE /\ scanner' = DriverScanned[prog[2]]
            /\ parser' = DriverParsed[prog[2]]
            /\ IF scanner'.had_error \/ parser'.has_error
               THEN /\ phase' = "static_error"
                    /\ errors' = parser'.stderr
                    /\ UNCHANGED <<stack, ctrl>>
               ELSE /\ phase' = IF Len(parser'.statements) = 0 THEN "done" ELSE "run"
                    /\ errors' = << >>
                    /\ stack' = IF Len(parser'.statements) = 0 THEN << >>
                                ELSE << [f |-> "execute",
                                         statements |-> parser'.statements, i |-> 1] >>
                    /\ ctrl' = IF Len(parser'.statements) = 0 THEN Halt
                               ELSE Exec(parser'.statements[1])
    /\ UNCHANGED <<machine, chunk, written, prog, locals, envs, environment, classes, instances,
                   output, calls>>

\* What run returns, and run_file passes to process::exit when it is not 0,
\* once the stages have ended.
run_returns ==
    CASE phase = "static_error" -> EXIT_CODE_DATA_ERROR
      [] phase = "failed" -> EXIT_CODE_SCRIPT_ERROR
      [] phase = "done" -> EXIT_CODE_OK

Next ==
    \/ Resolve
    \/ run_prompt
    \/ run_file
    \/ execute_next
    \/ execute_fail
    \/ propagate_error
    \/ execute_block_enter
    \/ execute_block_next
    \/ execute_block_error
    \/ exec_Expression
    \/ exec_Expression_done
    \/ exec_Function
    \/ exec_Return
    \/ exec_Return_done
    \/ exec_If
    \/ exec_If_branch
    \/ exec_Print
    \/ exec_Print_done
    \/ exec_Var
    \/ exec_Var_done
    \/ exec_While
    \/ exec_While_condition
    \/ exec_While_body
    \/ exec_Class
    \/ eval_Literal
    \/ eval_Variable
    \/ eval_This
    \/ eval_Super
    \/ eval_Assign
    \/ eval_Assign_done
    \/ eval_Binary
    \/ eval_Binary_left
    \/ eval_Binary_right
    \/ eval_Logical
    \/ eval_Logical_left
    \/ eval_Get
    \/ eval_Get_done
    \/ eval_Set
    \/ eval_Set_object
    \/ eval_Set_value
    \/ eval_Call
    \/ call_callee
    \/ call_argument
    \/ call_arity_mismatch
    \/ call_DynamicFunction
    \/ call_Function
    \/ LoxFunction_call_done
    \/ call_Class
    \/ LoxClass_call_done

Spec == Init /\ [][Next]_vars

\* The run has ended: Ok, a runtime error, or a static error.
Ended == phase \in {"done", "failed", "static_error"}

\* The run ended with this runtime error.
Failed(message) == phase = "failed" /\ errors = << message >>

\* The run of program `name` has ended.
EndOf(name) == prog[1] = name /\ Ended

(***************************************************************************)
(* Properties: scoping and environments.                                   *)
(***************************************************************************)
\* C1: a reference k scopes inside the scope that declares its variable is
\* recorded with depth k, and every evaluation of it gives the binding of
\* that declaring scope: in `depths` each reference reads and writes the
\* variable the text binds it to, and in `lexical` showA, declared where only
\* the outer `a` exists, prints "outer" on both calls although an inner `a`
\* is declared between them.
C1_LexicalScoping ==
    /\ (prog[1] = "depths" /\ phase # "resolve") =>
          locals = (3 :> 0 @@ 4 :> 1 @@ 5 :> 1 @@ 8 :> 1 @@ 9 :> 0)
    /\ EndOf("depths") =>
          /\ phase = "done"
          /\ output = << String("inner"), Number(prog[2]), String("outer"), String("set") >>
    /\ (prog[1] = "lexical" /\ phase # "resolve") => (1 \in DOMAIN locals /\ locals[1] = 2)
    /\ EndOf("lexical") =>
          /\ phase = "done"
          /\ output = << String("outer"), String("outer") >>

\* The scope `depth` enclosing links away from e (0: there is none).
ScopeReached(h, e, depth) == WalkEnclosing(h, e, depth).reached

\* C2: get_at and assign_at walk exactly `depth` links and then read or
\* update only the scope reached: whenever a resolved variable is read or
\* assigned successfully, the name is bound in the scope `depth` links from
\* the current environment.
C2_OnlyTheScopeReached ==
    /\ (Entering("eval", "Variable") /\ ctrl.e.id \in DOMAIN locals) =>
          LET depth == locals[ctrl.e.id]
              reached == ScopeReached(envs, environment, depth)
              r == Environment_get_at(envs, environment, ctrl.e.name, depth)
          IN  IsSome(r.value) =>
                  (reached # 0 /\ ctrl.e.name \in DOMAIN envs[reached].values)
    /\ (At("value", "Assign") /\ Top.e.id \in DOMAIN locals) =>
          LET depth == locals[Top.e.id]
              reached == ScopeReached(envs, environment, depth)
              a == Environment_assign_at(envs, environment, Top.e.name, ctrl.v, depth)
          IN  a.ok => (reached # 0 /\ Top.e.name \in DOMAIN envs[reached].values)

\* C3: closures share bindings by reference.  In `counter` each counter
\* keeps its own `i` between calls (n+1, n+2 from the first, n+1 from the
\* second); in `shared` the increment made by the declaring block is read by
\* get, and the write made through set is read by get, after the block ended.
C3_ClosuresShareBindings ==
    /\ EndOf("counter") =>
          /\ phase = "done"
          /\ output = << Number(prog[2] + 1), Number(prog[2] + 2), Number(prog[2] + 1) >>
    /\ EndOf("shared") =>
          /\ phase = "done"
          /\ output = << Number(prog[2] + 1), Number(7) >>

\* In `shared`, set has written 7 through its closure and get has read it.
C3_Witness == prog[1] = "shared" /\ phase = "done" /\ output[2] = Number(7)

\* A top-level statement has finished or failed, or the run has.
AtTopLevel ==
    \/ phase \in {"done", "failed"}
    \/ /\ Running /\ ctrl.m \in {"result", "error"}
       /\ Len(stack) = 1 /\ Top.f = "execute"

\* execute_block returns (Ok or Err) to its caller in this step.
execute_block_returns ==
    /\ Running /\ ctrl.m \in {"result", "error"}
    /\ Len(stack) > 0 /\ Top.f = "execute_block"
    /\ Len(stack') < Len(stack)

\* C4: when execute_block returns, normally, with a Return or with an error,
\* the current environment is the one that was current when it was called;
\* and whenever a top-level statement has finished or failed the current
\* environment is the global one.
C4_BlockRestoresEnvironment ==
    /\ [](AtTopLevel => environment = globals)
    /\ [][execute_block_returns => environment' = Top.previous]_vars

\* A call that failed inside nested blocks of the function has been unwound
\* to the top level.
C4_Witness ==
    /\ prog[1] = "error_in_call" /\ At("error", "execute")
    /\ Len(calls) > 0 /\ environment = globals

\* A `var` statement defines its name in this step.
Var_defines ==
    \/ At("value", "Var")
    \/ Entering("exec", "Var") /\ ~IsSome(ctrl.s.initializer)

\* C5: a `var` executed in a block binds the name in the current (the
\* block's) environment only, every other environment is left as it is; in
\* `shadow` the block prints its own a (10) and b, the outer a is still 5
\* after the block, and b read after the block is an undefined variable.
C5_VarIsLocalToBlock ==
    /\ [](EndOf("shadow") =>
            /\ output = << Number(10), Number(prog[2]), Number(5) >>
            /\ Failed("Undefined variable 'b'.\n[line 4]"))
    /\ [][Var_defines =>
            /\ Len(envs') = Len(envs)
            /\ \A e \in 1..Len(envs) : e # environment => envs'[e] = envs[e]
            /\ DOMAIN envs'[environment].values \subseteq
                   DOMAIN envs[environment].values \cup
                       {IF ctrl.m = "exec" THEN ctrl.s.name ELSE Top.name}]_vars

\* In `shadow` the block has exited, the outer a was printed as 5 and the
\* read of b has failed.
C5_Witness ==
    prog[1] = "shadow" /\ phase = "failed" /\ Len(output) = 3 /\ output[3] = Number(5)

(***************************************************************************)
(* Properties: calls and returns.                                          *)
(***************************************************************************)
\* The numbers from, from + 1, ..., to, one printed line each.
Counting(from, to) == [i \in 1..(to - from + 1) |-> Number(from + i - 1)]

\* A statement has returned Ok(Return(value)) to the activation on top.
Returning == Running /\ ctrl.m = "result" /\ ctrl.ret

\* C6: a `return` ends the call at once.  While a Return result travels, each
\* step only leaves one activation (a block, a loop, at last the call), with
\* no statement or expression started, nothing printed and no environment
\* written; the call of a function that is no initializer has the returned
\* value, and Nil when the body fell off the end.  In `return_loop` bar
\* returns from inside a block in an endless loop: it prints 0..n, then its
\* value n is printed, then nil for a bare return and nil for an empty body,
\* and the statements after the returns print nothing.
C6_ReturnEndsTheCall ==
    /\ [](EndOf("return_loop") =>
            /\ phase = "done"
            /\ output = Counting(0, prog[2]) \o << Number(prog[2]), Nil, Nil >>)
    /\ [][Returning =>
            /\ Len(stack) > 0 /\ stack' = Pop
            /\ output' = output /\ envs' = envs
            /\ Top.f \in {"execute_block", "While_body", "LoxFunction_call"}
            /\ IF Top.f = "LoxFunction_call"
               THEN ctrl'.m = "value" /\ (~Top.func.is_initializer => ctrl'.v = ctrl.v)
               ELSE ctrl' = ctrl]_vars
    /\ [][(At("result", "LoxFunction_call") /\ ~ctrl.ret /\ ~Top.func.is_initializer)
             => ctrl' = Value(Nil)]_vars

\* In `return_loop` the Return of bar, made in the block of the if inside the
\* loop, has reached the loop.
C6_Witness ==
    /\ prog[1] = "return_loop" /\ Returning
    /\ Top.f = "While_body" /\ ctrl.v = Number(prog[2])

RECURSIVE Factorial(_)
Factorial(n) == IF n <= 0 THEN 1 ELSE Factorial(n - 1) * n

\* LoxFunction::call is entered in this step.
LoxFunction_call_enters == Len(calls') = Len(calls) + 1

\* C7: a call of a user function creates a fresh environment whose parent is
\* the function's closure, with exactly the parameters, each bound to its
\* argument, and the block of the body runs directly inside it; no
\* environment that existed before the call is changed by entering it, and no
\* two calls share that environment.  In `factorial` the recursive
\* activations each keep their own n; in `caller_locals` g writes the global
\* x, not the x of its caller h, and r cannot read the y of its caller q.
C7_CallEnvironment ==
    /\ [](EndOf("factorial") =>
            phase = "done" /\ output = << Number(Factorial(prog[2])) >>)
    /\ [](EndOf("caller_locals") =>
            /\ output = << String("written"), Number(prog[2]), String("written") >>
            /\ Failed("Undefined variable 'y'.\n[line 6]"))
    /\ [](\A i, j \in DOMAIN calls : i # j => calls[i].fun_env # calls[j].fun_env)
    /\ [][LoxFunction_call_enters =>
            LET c == calls'[Len(calls')]
                params == c.func.declaration.params
            IN  /\ Calling("fun") => (c.func = ctrl.callee /\ c.arguments = ctrl.arguments)
                /\ c.fun_env > Len(envs)
                /\ envs'[c.fun_env].enclosing = c.func.closure
                /\ DOMAIN envs'[c.fun_env].values =
                      {params[i].lexeme : i \in 1..Len(params)}
                /\ \A i \in 1..Len(params) :
                       envs'[c.fun_env].values[params[i].lexeme] = c.arguments[i]
                /\ environment' > Len(envs)
                /\ envs'[environment'].enclosing = c.fun_env
                /\ \A e \in 1..Len(envs) : envs'[e] = envs[e]]_vars

\* In `factorial` two activations of fact are live, the inner one called from
\* the body of the outer one, each with its own n.
C7_Witness ==
    /\ prog[1] = "factorial" /\ Running /\ Len(calls) = 2
    /\ calls[2].caller # globals
    /\ envs[calls[1].fun_env].values["n"] = Number(prog[2])
    /\ envs[calls[2].fun_env].values["n"] = Number(prog[2] - 1)

(***************************************************************************)
(* Properties: classes and instances.                                      *)
(***************************************************************************)
\* The lines `init` prints: Foo(n) runs init once (it prints "fell" only when
\* it falls off the end, n = 0), foo.init(5) returns through `return;`,
\* foo.init(0) falls off the end, Bar(0) runs the inherited init.
Output_init ==
    (IF prog[2] > 0 THEN << >> ELSE << String("fell") >>) \o
    << Number(prog[2]), Number(5), Number(6), String("fell"), Number(7), Number(0),
       String("fell"), Number(0) >>

\* C8: a call of an initializer yields the instance it is bound to, when the
\* body falls off the end and when it executes `return;`, called through the
\* class or as instance.init(...).  In `init` the values of foo.init(5) and
\* foo.init(0) are foo itself: the fields set through them are read from foo.
C8_InitializerYieldsInstance ==
    /\ [](EndOf("init") => phase = "done" /\ output = Output_init)
    /\ [][(At("result", "LoxFunction_call") /\ Top.func.is_initializer) =>
            /\ "this" \in DOMAIN envs[Top.func.closure].values
            /\ envs[Top.func.closure].values["this"].k = "instance"
            /\ ctrl' = Value(envs[Top.func.closure].values["this"])]_vars

\* In `init`, foo.init(0), which falls off the end, has returned foo.
C8_Witness ==
    /\ prog[1] = "init" /\ At("value", "Var")
    /\ Top.name = "third" /\ ctrl.v = Instance(1)

\* The calls of LoxFunction::call made so far on a method bound to `instance`.
CallsBoundTo(instance) ==
    {i \in DOMAIN calls :
        LET values == envs[calls[i].func.closure].values
        IN  "this" \in DOMAIN values /\ values["this"] = Instance(instance)}

\* A class is called with the number of arguments of its arity.
LoxClass_call_enters ==
    Calling("class") /\ Len(ctrl.arguments) = Callable_arity(ctrl.callee)

\* C9: calling a class creates a new instance of it without fields, leaving
\* the earlier instances as they are; an `init` of the class or of a
\* superclass is bound to the new instance and called with the arguments,
\* once, before the call returns; the value of the call is the new instance;
\* the arity is that of `init`, 0 without one.  In `class_arity` Q inherits
\* init(a, b), Q(n, 1) and Q(5, 5) give two instances with their own fields
\* and Z() takes no argument; in `class_arity_error` Q(n) is refused.
C9_ClassCall ==
    /\ [](EndOf("class_arity") =>
            /\ output = << Number(prog[2] + 1), Number(10),
                           [text |-> "instance", name |-> "Z"] >>
            /\ Failed("Undefined property 't'.\n[line 10]"))
    /\ [](EndOf("class_arity_error") =>
            output = << >> /\ Failed("Expected 2 arguments but got 1.\n[line 3]"))
    /\ [][LoxClass_call_enters =>
            LET new == Len(instances) + 1
                init == find_method(classes, ctrl.callee.ref, "init")
            IN  /\ Len(instances') = new
                /\ instances'[new] = [class |-> ctrl.callee.ref, fields |-> EmptyMap]
                /\ \A i \in 1..Len(instances) : instances'[i] = instances[i]
                /\ IF IsSome(init)
                   THEN /\ LoxFunction_call_enters
                        /\ LET c == calls'[Len(calls')]
                           IN  /\ c.func.declaration = init[1].declaration
                               /\ c.arguments = ctrl.arguments
                               /\ envs'[c.func.closure].values["this"] = Instance(new)
                        /\ stack'[Len(stack) + 1] = [f |-> "LoxClass_call", instance |-> new]
                   ELSE ctrl' = Value(Instance(new)) /\ calls' = calls]_vars
    /\ [][At("value", "LoxClass_call") =>
            /\ ctrl' = Value(Instance(Top.instance))
            /\ Cardinality(CallsBoundTo(Top.instance)) = 1]_vars

\* In `class_arity` the inherited init has run for the second instance and
\* the call of Q is about to return it.
C9_Witness ==
    prog[1] = "class_arity" /\ At("value", "LoxClass_call") /\ Top.instance = 2

\* The superclass chain of class c, c first.
RECURSIVE SuperclassChain(_, _)
SuperclassChain(ch, c) ==
    IF c = 0 THEN << >> ELSE << c >> \o SuperclassChain(ch, ch[c].superclass)

\* The nearest class of the chain of c that defines method `name` (0: none).
NearestDefiner(ch, c, name) ==
    LET chain == SuperclassChain(ch, c)
        found == {k \in 1..Len(chain) : name \in DOMAIN ch[chain[k]].methods}
    IN  IF found = {} THEN 0
        ELSE chain[CHOOSE k \in found : \A other \in found : k <= other]

\* C10: object.name on an instance gives the field `name` when the instance
\* has one, also when a class of it defines a method `name`; otherwise the
\* method `name` of the nearest class of its superclass chain, bound to the
\* instance; otherwise `Undefined property`.  In `inherit` B overrides m of
\* A and inherits n and who, C inherits all through B, the field b.n hides
\* the method n for b only, and who reads `this` of the instance it was
\* taken from.
C10_PropertyLookup ==
    /\ [](EndOf("inherit") =>
            /\ output = << String("B.m"), String("A.n"), String("B.m"), Number(prog[2]),
                           String("A.n"), String("c"), String("b") >>
            /\ Failed("Undefined property 'zz'.\n[line 17]"))
    /\ [][(At("value", "Get") /\ ctrl.v.k = "instance") =>
            LET fields == instances[ctrl.v.ref].fields
                name == Top.e.name
                owner == NearestDefiner(classes, instances[ctrl.v.ref].class, name)
            IN  IF name \in DOMAIN fields THEN ctrl' = Value(fields[name])
                ELSE IF owner # 0
                THEN /\ ctrl'.m = "value" /\ ctrl'.v.k = "fun"
                     /\ ctrl'.v.declaration = classes[owner].methods[name].declaration
                     /\ envs'[ctrl'.v.closure].values = Put(EmptyMap, "this", ctrl.v)
                     /\ envs'[ctrl'.v.closure].enclosing =
                            classes[owner].methods[name].closure
                ELSE ctrl' = Error(format_lexeme("Undefined property", name,
                                                 Top.e.line))]_vars

\* In `inherit` b.n is read while b has a field n and its class chain a
\* method n.
C10_Witness ==
    /\ prog[1] = "inherit" /\ At("value", "Get") /\ Top.e.name = "n"
    /\ ctrl.v.k = "instance" /\ "n" \in DOMAIN instances[ctrl.v.ref].fields
    /\ NearestDefiner(classes, instances[ctrl.v.ref].class, "n") # 0

\* The function whose body is running: that of the innermost activation of
\* LoxFunction::call.
CurrentFunction ==
    LET active == {i \in 1..Len(stack) : stack[i].f = "LoxFunction_call"}
    IN  stack[CHOOSE i \in active : \A j \in active : j <= i].func

\* The class whose body declares the method `declaration`.
DeclaringClass(declaration) ==
    CHOOSE c \in 1..Len(classes) :
        \E name \in DOMAIN classes[c].methods :
            classes[c].methods[name].declaration = declaration

\* C11: in a method declared in class B with superclass A, super.m is the
\* method m of the nearest class that defines m among A and its ancestors,
\* bound to the current `this`, whatever the class of `this`; without such a
\* method the evaluation fails with `Undefined property`.  In `super_chain`
\* the methods of C (which overrides m and k) use super on instances of C
\* and of its subclass D (which overrides m and k again): super.m is m of B,
\* super.k is k of A, which reads the tag of the instance it runs on.
C11_SuperLookup ==
    /\ [](EndOf("super_chain") =>
            /\ output = << String("B.m"), String("B.m"), String("c"), Number(prog[2]),
                           Number(prog[2]) >>
            /\ Failed("Undefined property 'zz'.\n[line 8]"))
    /\ [][Entering("eval", "Super") =>
            LET func == CurrentFunction
                this == envs[func.closure].values["this"]
                A == classes[DeclaringClass(func.declaration)].superclass
                m == ctrl.e.method
                owner == NearestDefiner(classes, A, m)
            IN  IF owner # 0
                THEN /\ ctrl'.m = "value" /\ ctrl'.v.k = "fun"
                     /\ ctrl'.v.declaration = classes[owner].methods[m].declaration
                     /\ envs'[ctrl'.v.closure].values = Put(EmptyMap, "this", this)
                     /\ envs'[ctrl'.v.closure].enclosing = classes[owner].methods[m].closure
                ELSE ctrl' = Error(format_lexeme("Undefined property", m,
                                                 ctrl.e.method_line))]_vars

\* In `super_chain` super.m is evaluated in method up of C, which overrides
\* m, on an instance of D, which overrides m too.
C11_Witness ==
    /\ prog[1] = "super_chain" /\ Entering("eval", "Super") /\ ctrl.e.method = "m"
    /\ classes[instances[envs[CurrentFunction.closure].values["this"].ref].class].name = "D"
    /\ classes[DeclaringClass(CurrentFunction.declaration)].name = "C"

\* C12: instances are shared by reference: a field written through one
\* reference is read through every other reference to the same instance,
\* and the fields of the other instances stay as they are.  In `aliases` o,
\* alias, the parameter q of poke, the value poke returns and `this` in
\* put and get refer to one instance: each write through one of them is read
\* through another, and other.f is never touched.
C12_InstancesShared ==
    /\ [](EndOf("aliases") =>
            /\ phase = "done"
            /\ output = << Number(1), Number(prog[2]), Number(7), Number(8),
                           String("other") >>
            /\ \A name \in {"o", "alias", "back"} :
                  envs[globals].values[name] = Instance(1))
    /\ [][At("value", "Set_value") =>
            /\ DOMAIN instances' = DOMAIN instances
            /\ instances'[Top.instance].fields[Top.e.name] = ctrl.v
            /\ \A i \in DOMAIN instances :
                  /\ i # Top.instance => instances'[i] = instances[i]
                  /\ instances'[i].class = instances[i].class
                  /\ \A f \in DOMAIN instances[i].fields \ {Top.e.name} :
                        /\ f \in DOMAIN instances'[i].fields
                        /\ instances'[i].fields[f] = instances[i].fields[f]]_vars

\* In `aliases` the field f of o is written through `this` in put, while
\* the other instance has a field f of its own.
C12_Witness ==
    /\ prog[1] = "aliases" /\ At("value", "Set_value") /\ Top.instance = 1
    /\ ctrl.v = Number(7) /\ "this" \in DOMAIN envs[CurrentFunction.closure].values
    /\ "f" \in DOMAIN instances[2].fields

(***************************************************************************)
(* Properties: equality.                                                   *)
(***************************************************************************)
\* C13: equality of instances is by identity: == of two references to the
\* same instance is true and != is false, == of two distinct instances is
\* false and != is true.  `same_instance` prints o == alias, o != alias,
\* o == p and o != p, where alias is o and p is another instance.
C13_InstanceIdentity ==
    EndOf("same_instance") =>
        /\ phase = "done"
        /\ output = << Bool(TRUE), Bool(FALSE), Bool(FALSE), Bool(TRUE) >>

Falsey(v) == v = Nil \/ v = Bool(FALSE)

\* C15: `a and b` evaluates b only when a is truthy, `a or b` only when a is
\* falsey; the result is the value of the last operand evaluated, as it is;
\* exactly false and nil are falsey.  In `logic` tick counts and prints its
\* calls: false and .., true or .., nil and .., n or .. (a number, also 0)
\* and "" or .. leave it uncalled and give the left operand, nil or .. and
\* "left" and .. call it and give what it returns.
C15_ShortCircuit ==
    /\ [](EndOf("logic") =>
            /\ phase = "done"
            /\ output = << Bool(FALSE), Bool(TRUE), Nil, Number(prog[2]),
                           Number(1), String("right"), Number(2), Nil,
                           Bool(FALSE), String("zero"), String(""), Number(2) >>)
    /\ [][At("value", "Logical") =>
            LET skip == IF Top.e.operator = "And" THEN Falsey(ctrl.v) ELSE ~Falsey(ctrl.v)
            IN  /\ stack' = Pop
                /\ ctrl' = IF skip THEN Value(ctrl.v) ELSE Eval(Top.e.right)
                /\ envs' = envs /\ output' = output /\ instances' = instances]_vars

\* In `logic` the left operand of `false and tick(1)` has been evaluated: the
\* call on the right is to be skipped.
C15_Witness ==
    /\ prog[1] = "logic" /\ At("value", "Logical")
    /\ Top.e.operator = "And" /\ ctrl.v = Bool(FALSE) /\ Top.e.right.t = "Call"

\* C16: a call evaluates the callee, then the arguments from left to right,
\* each once, and only then starts the body; a binary expression evaluates
\* its left operand completely before its right operand; the side effects
\* happen in that order.  In `order` say prints its argument and add prints
\* "body": pick()(say(1), say(n)) prints callee, 1, n, body; the operands of
\* - and of + and * are printed from left to right; add(x = 3, x) and
\* bump(5) + x and put(4) * q.f read on the right what the left has just
\* written to a variable or a field.
C16_EvaluationOrder ==
    /\ [](EndOf("order") =>
            /\ phase = "done"
            /\ output = << String("callee"), Number(1), Number(prog[2]), String("body"),
                           Number(1 + prog[2]),
                           Number(2), Number(3), Number(0 - 1),
                           Number(1), Number(2), Number(3), Number(7),
                           String("body"), Number(6),
                           Number(10), Number(16) >>)
    /\ [][Entering("eval", "Call") => ctrl' = Eval(ctrl.e.callee) /\ calls' = calls]_vars
    /\ [][(At("value", "Call_callee") /\ IsCallable(ctrl.v)) =>
            /\ calls' = calls
            /\ IF Len(Top.e.arguments) = 0
               THEN ctrl' = [m |-> "call", callee |-> ctrl.v, arguments |-> << >>,
                             line |-> Top.e.line]
               ELSE ctrl' = Eval(Top.e.arguments[1])]_vars
    /\ [][At("value", "Call_arguments") =>
            LET done == Append(Top.arguments, ctrl.v)
            IN  /\ calls' = calls
                /\ IF Len(done) < Len(Top.e.arguments)
                   THEN /\ ctrl' = Eval(Top.e.arguments[Len(done) + 1])
                        /\ stack'[Len(stack)].arguments = done
                   ELSE ctrl' = [m |-> "call", callee |-> Top.callee,
                                 arguments |-> done, line |-> Top.e.line]]_vars
    /\ [][calls' # calls => ctrl.m = "call"]_vars
    /\ [][Entering("eval", "Binary") => ctrl' = Eval(ctrl.e.left)]_vars
    /\ [][At("value", "Binary_left") =>
            /\ ctrl' = Eval(Top.e.right)
            /\ stack'[Len(stack)].left = ctrl.v]_vars

\* In `order` the first argument of pick()(say(1), say(n)) has been evaluated
\* and printed, the callee pick() before it, and the second is next.
C16_Witness ==
    /\ prog[1] = "order" /\ At("value", "Call_arguments")
    /\ Top.callee.k = "fun" /\ Top.callee.declaration.name = "add"
    /\ Top.arguments = << >> /\ ctrl.v = Number(1)
    /\ output = << String("callee"), Number(1) >>

\* The bindings (environment, name) that differ between two heaps of equal
\* length.
ChangedBindings(h1, h2) ==
    {b \in UNION {{<<e, name>> : name \in DOMAIN h1[e].values \cup DOMAIN h2[e].values} :
                     e \in DOMAIN h1} :
        \/ b[2] \notin DOMAIN h1[b[1]].values
        \/ b[2] \notin DOMAIN h2[b[1]].values
        \/ h1[b[1]].values[b[2]] # h2[b[1]].values[b[2]]}

\* C17: an assignment to a name that no scope on its lookup path defines
\* (the environments from the current one outwards for a resolved name, the
\* globals otherwise) fails with Undefined variable '<name>'. and leaves
\* every environment as it is; an assignment that succeeds changes at most
\* the one binding of the name it found, which then holds the value, and
\* the value of the expression is that value.  In `assign` p = n, a = 7 and
\* b = a = 7 update a parameter, a global and a variable of an enclosing
\* block, and u = 3 fails without declaring u.
C17_AssignNeverDeclares ==
    /\ [](EndOf("assign") =>
            /\ output = << Number(prog[2]), Number(prog[2]), Number(7), Number(7),
                           Number(7) >>
            /\ Failed("Undefined variable 'u'.\n[line 9]")
            /\ \A e \in DOMAIN envs : "u" \notin DOMAIN envs[e].values)
    /\ [][At("value", "Assign") =>
            LET name == Top.e.name
                path == IF Top.e.id \in DOMAIN locals
                        THEN EnvironmentChain(envs, environment)
                        ELSE << globals >>
                defined == \E i \in DOMAIN path : name \in DOMAIN envs[path[i]].values
            IN  /\ Len(envs') = Len(envs)
                /\ \A e \in DOMAIN envs :
                      /\ envs'[e].enclosing = envs[e].enclosing
                      /\ DOMAIN envs'[e].values = DOMAIN envs[e].values
                /\ IF defined
                   THEN /\ ctrl' = Value(ctrl.v)
                        /\ \E i \in DOMAIN path :
                              /\ name \in DOMAIN envs[path[i]].values
                              /\ envs'[path[i]].values[name] = ctrl.v
                              /\ ChangedBindings(envs, envs') \subseteq {<<path[i], name>>}
                   ELSE /\ ctrl' = Error(format_lexeme("Undefined variable", name,
                                                       Top.e.line))
                        /\ envs' = envs]_vars

\* In `assign` the value of u = 3 has been evaluated and no environment on
\* the lookup path of u defines it.
C17_Witness ==
    /\ prog[1] = "assign" /\ At("value", "Assign") /\ Top.e.name = "u"
    /\ \A e \in DOMAIN envs : "u" \notin DOMAIN envs[e].values
    /\ Len(EnvironmentChain(envs, environment)) = 3

\* The number of arguments a callable takes: the parameters of a function,
\* those of the nearest `init` of a class (0 without one), 0 for clock.
ArityOf(callee) ==
    CASE callee.k = "fun" -> Len(callee.declaration.params)
      [] callee.k = "class" ->
            LET owner == NearestDefiner(classes, callee.ref, "init")
            IN  IF owner = 0 THEN 0
                ELSE Len(classes[owner].methods["init"].declaration.params)
      [] OTHER -> 0

\* C18: a call of a function, a class or clock with a number of arguments
\* other than its arity fails with Expected N arguments but got M. (N the
\* arity, M the number given) and runs nothing of the callee: no call is
\* entered, no instance is made, the environments stay; a call of a value
\* that is no callable fails without evaluating an argument.  `arity` makes
\* one wrong call, chosen by n: two(say(1)), K() with init(a), clock(say(1)),
\* and otherwise text(say(9)) with text a string, whose argument would print
\* 9.
C18_ArityAndCallable ==
    /\ [](EndOf("arity") =>
            /\ instances = << >>
            /\ CASE prog[2] = 0 ->
                      /\ output = << Number(1) >>
                      /\ Failed("Expected 2 arguments but got 1.\n[line 5]")
                 [] prog[2] = 1 ->
                      /\ output = << >>
                      /\ Failed("Expected 1 arguments but got 0.\n[line 6]")
                 [] prog[2] = 2 ->
                      /\ output = << Number(1) >>
                      /\ Failed("Expected 0 arguments but got 1.\n[line 7]")
                 [] OTHER ->
                      /\ output = << >>
                      /\ Failed("Can only call functions and classes.\n[line 8]"))
    /\ [][(Running /\ ctrl.m = "call" /\ Len(ctrl.arguments) # ArityOf(ctrl.callee)) =>
            /\ ctrl' = Error(format_line(
                            "Expected " \o ToString(ArityOf(ctrl.callee))
                                \o " arguments but got "
                                \o ToString(Len(ctrl.arguments)) \o ".",
                            ctrl.line))
            /\ calls' = calls /\ instances' = instances /\ envs' = envs
            /\ output' = output /\ stack' = stack]_vars
    /\ [][(calls' # calls \/ Len(instances') # Len(instances)) =>
            /\ ctrl.m = "call"
            /\ Len(ctrl.arguments) = ArityOf(ctrl.callee)]_vars
    /\ [][(At("value", "Call_callee") /\ ~IsCallable(ctrl.v)) =>
            /\ ctrl' = Error(format_line("Can only call functions and classes.",
                                         Top.e.line))
            /\ stack' = Pop
            /\ output' = output /\ envs' = envs /\ instances' = instances]_vars

\* In `arity` the class K, whose init takes one argument, is called without
\* arguments.
C18_Witness ==
    /\ prog[1] = "arity" /\ Running /\ ctrl.m = "call" /\ ctrl.callee.k = "class"
    /\ Len(ctrl.arguments) = 0 /\ ArityOf(ctrl.callee) = 1

(***************************************************************************)
(* Properties: runtime errors.                                             *)
(***************************************************************************)
\* The message ends with "[line N]" on a line of its own.
EndsWithLine(message, N) ==
    LET suffix == "\n[line " \o ToString(N) \o "]"
    IN  /\ Len(message) > Len(suffix)
        /\ SubSeq(message, Len(message) - Len(suffix) + 1, Len(message)) = suffix

\* The lines of the tokens an error of the step being taken can name: those
\* of the expression being evaluated, of the call being made, or of the
\* class statement and its superclass.
OffendingLines ==
    CASE ctrl.m = "eval" ->
            {ctrl.e.line} \cup (IF ctrl.e.t = "Super" THEN {ctrl.e.method_line} ELSE {})
      [] ctrl.m = "call" -> {ctrl.line}
      [] ctrl.m = "exec" ->
            {ctrl.s.line} \cup {ctrl.s.superclass[i].line : i \in DOMAIN ctrl.s.superclass}
      [] OTHER -> {Top.e.line}

\* C19: a runtime error ends the run at once: from the step that raises it
\* on, nothing is executed or evaluated, the activations are left one after
\* the other, and output, environments, classes and instances stay as they
\* were, whatever blocks, loops and calls the error came from (at the prompt
\* nothing more happens until the next line is read); its message
\* ends with [line N], N the line of the token at fault.  In `abort` the
\* error is raised in a block of an if in a block of a loop in a function,
\* for n = 2 one call deeper; the second round of the loop has printed 2
\* before it and nothing is printed after it; with n = 1 the operator + is
\* on line 10 and its right operand on line 11.
C19_ErrorAborts ==
    /\ [](EndOf("abort") =>
            /\ output = << Number(1), String("after if"), Number(2) >>
            /\ envs[globals].values["g"] = Number(2)
            /\ CASE prog[2] = 0 -> Failed("Undefined variable 'undefined_v'.\n[line 9]")
                 [] prog[2] = 1 ->
                      Failed("Operands must be two numbers or two strings.\n[line 10]")
                 [] prog[2] = 2 -> Failed("Undefined property 'missing'.\n[line 2]")
                 [] OTHER -> Failed("Only instances have properties.\n[line 13]"))
    /\ [][(Running /\ ctrl.m = "error") =>
            /\ \/ ctrl' = ctrl /\ phase' = phase
               \/ ctrl' = Halt /\ phase' = "failed" /\ errors' = << ctrl.message >>
            /\ stack' = Pop
            /\ output' = output /\ envs' = envs
            /\ classes' = classes /\ instances' = instances /\ calls' = calls]_vars
    /\ [][(phase = "failed" /\ prog' = prog) => vars' = vars]_vars
    /\ [][(ctrl.m # "error" /\ ctrl'.m = "error") =>
            \E N \in OffendingLines : EndsWithLine(ctrl'.message, N)]_vars

\* In `abort` the addition of line 10 has failed below a call, a loop, two
\* blocks and an if, after the loop has printed twice.
C19_Witness ==
    /\ prog = <<"abort", 1>> /\ Running /\ ctrl.m = "error"
    /\ Len(output) = 3
    /\ {stack[i].f : i \in DOMAIN stack} =
          {"execute", "Expression", "LoxFunction_call", "execute_block", "While_body",
           "Print"}

(***************************************************************************)
(* Properties: the prompt.                                                 *)
(***************************************************************************)
\* The run is a session at the prompt.
Session == prog[1] = "repl"

\* What the last read_line of the session gave.
LastRead == prog[2][Len(prog[2])]

\* The line `source` was read before the last line of the session.
ReadEarlier(source) == \E i \in 1..(Len(prog[2]) - 1) : prog[2][i] = ReadOk(source)

\* The last line read is `source`.
LineRead(source) == Session /\ Len(prog[2]) > 0 /\ LastRead = ReadOk(source)

\* The run of the last line read, `source`, has returned from execute.
LineEnded(source) == LineRead(source) /\ phase \in {"done", "failed"}

\* The last line read, `use`, prints `value` when the line `definition` was
\* read at any time before it, and fails with `message` otherwise.
UsableLater(definition, use, value, message) ==
    LineEnded(use) =>
        IF ReadEarlier(definition)
        THEN phase = "done" /\ Len(output) > 0 /\ output[Len(output)] = value
        ELSE Failed(message)

\* What is the same in C20 and in its original statement: the bindings of
\* earlier lines are there for every later line, no step of a session removes
\* a global binding, a class or an instance, and a line that ends in a static
\* or a runtime error leaves the session at the prompt with the bindings,
\* classes, instances and output it had.
SessionKeepsBindings ==
    /\ [](/\ UsableLater("var g = 1;\n", "print g;\n", Number(1),
                         "Undefined variable 'g'.\n[line 1]")
          /\ UsableLater("fun f() { return 2; }\n", "print f();\n", Number(2),
                         "Undefined variable 'f'.\n[line 1]")
          /\ UsableLater("class C { m() { return 3; } }\n", "print C().m();\n", Number(3),
                         "Undefined variable 'C'.\n[line 1]")
          /\ LineRead("print nope;\n") =>
                \/ phase = "run"
                \/ Failed("Undefined variable 'nope'.\n[line 1]")
          /\ LineRead("var = ;\n") => phase = "prompt"
          /\ (Session /\ phase \in {"prompt", "done", "failed"} /\ Len(prog[2]) < MaxLines)
                => ENABLED run_prompt)
    /\ [][Session =>
            /\ DOMAIN envs[globals].values \subseteq DOMAIN envs'[globals].values
            /\ Len(classes) <= Len(classes') /\ Len(instances) <= Len(instances')
            /\ (phase' \in {"prompt", "failed", "exit"} /\ phase' # phase) =>
                  /\ envs' = envs /\ environment' = environment
                  /\ classes' = classes /\ instances' = instances
                  /\ output' = output]_vars

\* C20: at the prompt one Interpreter serves all lines: a global variable,
\* function or class defined by an earlier line is usable by every later
\* line, a line that ends in a static or runtime error does not end the loop
\* and removes no binding of an earlier line, and the loop ends only when the
\* line read is empty or blank or when reading the line fails.
C20_OneInterpreterForAllLines ==
    /\ SessionKeepsBindings
    /\ [][(Session /\ phase' = "exit" /\ phase # "exit") =>
            \/ ~LastRead'.ok
            \/ LastRead'.input \in {"\n", "  \n"}]_vars

\* The third line of a session prints g, defined by the first line, after
\* the second line ended in a runtime error.
C20_Witness ==
    /\ prog = << "repl", << ReadOk("var g = 1;\n"), ReadOk("print nope;\n"),
                           ReadOk("print g;\n") >> >>
    /\ phase = "done"
    /\ output = << Number(1) >>

\* C20 as first stated: the same, but only an empty (or blank) input line
\* ends the loop.
C20_OnlyAnEmptyLineEnds ==
    /\ SessionKeepsBindings
    /\ [][(Session /\ phase' = "exit" /\ phase # "exit") =>
            (LastRead'.ok /\ LastRead'.input \in {"\n", "  \n"})]_vars

(***************************************************************************)
(* Properties: static errors.                                              *)
(***************************************************************************)
\* `text` occurs in the string s.
Contains(s, text) ==
    \E i \in 1..(Len(s) - Len(text) + 1) : SubSeq(s, i, i + Len(text) - 1) = text

\* The message resolve_stmts has returned for the program ("" for Ok), in
\* the state after Resolve.
ResolverMessage == IF errors' = << >> THEN "" ELSE errors'[1]

\* What the resolver reports at the token `lexeme` of line `line`.
Reported(line, lexeme, message) ==
    Contains(ResolverMessage,
             "[line " \o ToString(line) \o "] Error at '" \o lexeme \o "': " \o message)

\* The return statements of a statement: the line of the keyword, whether
\* there is a value, and the kind of the innermost function around it
\* (`kind` outside the statement).
RECURSIVE ReturnsOf(_, _)
RECURSIVE ReturnsIn(_, _)
ReturnsIn(statements, kind) ==
    UNION {ReturnsOf(statements[i], kind) : i \in DOMAIN statements}

ReturnsOf(s, kind) ==
    CASE s.t = "Return" -> {[line |-> s.line, value |-> IsSome(s.value), kind |-> kind]}
      [] s.t = "Block" -> ReturnsIn(s.statements, kind)
      [] s.t = "If" ->
            ReturnsOf(s.then_branch, kind)
            \cup (IF IsSome(s.else_branch) THEN ReturnsOf(s.else_branch[1], kind) ELSE {})
      [] s.t = "While" -> ReturnsOf(s.body, kind)
      [] s.t = "Function" -> ReturnsIn(s.body, "Function")
      [] s.t = "Class" ->
            UNION {ReturnsIn(s.methods[i].body,
                             IF s.methods[i].name = "init" THEN "Initializer" ELSE "Method")
                   : i \in DOMAIN s.methods}
      [] OTHER -> {}

\* C22: the resolver reports "Can't return from top-level code." for exactly
\* the return statements that are in no function, and "Can't return a value
\* from an initializer." for exactly the returns with a value whose innermost
\* function is an initializer; every other return gets neither message.
C22_ReturnRules ==
    [][Resolve =>
        \A r \in ReturnsIn(Statements, "None") :
            /\ Reported(r.line, "return", "Can't return from top-level code.")
                  <=> r.kind = "None"
            /\ Reported(r.line, "return", "Can't return a value from an initializer.")
                  <=> (r.kind = "Initializer" /\ r.value)]_vars


\* The Resolver as resolve_stmts has it when its loop reaches the i-th
\* top-level statement (i = Len + 1: after the last one).
ResolverAt(i) ==
    resolve_stmts(Resolver_new(EmptyMap), SubSeq(Statements, 1, i - 1)).st

\* C24: every scope pushed for a block, a function body, a class body or a
\* `super` scope is popped again and the function kind and class kind are
\* restored, also after an error: each top-level statement is resolved with
\* an empty scope stack, function kind None and class kind None.
C24_ScopesBalanced ==
    [][Resolve =>
        \A i \in 1..(Len(Statements) + 1) :
            /\ ResolverAt(i).scopes = << >>
            /\ ResolverAt(i).current_function = "None"
            /\ ResolverAt(i).current_class = "None"]_vars


\* The declarations of a program by its block structure, each with `again`:
\* whether its name is already in the innermost local scope (`names`; at
\* global scope, local = FALSE, nothing is).  A function body shares the scope
\* of the parameters; a block, a function and a method start a scope.
RECURSIVE DeclarationsIn(_, _, _, _)
RECURSIVE DeclarationsOf(_, _, _)
RECURSIVE DeclarationsOfFunction(_)
DeclarationsIn(statements, i, names, local) ==
    IF i > Len(statements) THEN {}
    ELSE DeclarationsOf(statements[i], names, local)
         \cup DeclarationsIn(statements, i + 1,
                             IF statements[i].t \in {"Var", "Function", "Class"}
                             THEN names \cup {statements[i].name} ELSE names,
                             local)

DeclarationsOfFunction(f) ==
    {[name |-> f.params[i].lexeme, line |-> f.params[i].line,
      again |-> \E k \in 1..(i - 1) : f.params[k].lexeme = f.params[i].lexeme]
     : i \in DOMAIN f.params}
    \cup DeclarationsIn(f.body, 1, {f.params[i].lexeme : i \in DOMAIN f.params}, TRUE)

DeclarationsOf(s, names, local) ==
    CASE s.t = "Var" ->
            {[name |-> s.name, line |-> s.line, again |-> local /\ s.name \in names]}
      [] s.t = "Function" ->
            {[name |-> s.name, line |-> s.line, again |-> local /\ s.name \in names]}
            \cup DeclarationsOfFunction(s)
      [] s.t = "Class" ->
            {[name |-> s.name, line |-> s.line, again |-> local /\ s.name \in names]}
            \cup UNION {DeclarationsOfFunction(s.methods[i]) : i \in DOMAIN s.methods}
      [] s.t = "Block" -> DeclarationsIn(s.statements, 1, {}, TRUE)
      [] s.t = "If" ->
            DeclarationsOf(s.then_branch, names, local)
            \cup (IF IsSome(s.else_branch)
                  THEN DeclarationsOf(s.else_branch[1], names, local) ELSE {})
      [] s.t = "While" -> DeclarationsOf(s.body, names, local)
      [] OTHER -> {}

\* C23: a declaration is reported as "Already a variable with this name in
\* this scope." exactly when its name is already in the innermost local
\* scope; a declaration at global scope is never reported, and the later
\* global definition replaces the earlier value (`redefined` prints the
\* values of the latest definitions).
C23_Redeclaration ==
    [][/\ Resolve =>
            \A d \in DeclarationsIn(Statements, 1, {}, FALSE) :
                Reported(d.line, d.name,
                         "Already a variable with this name in this scope.") <=> d.again
       /\ (prog[1] = "redefined" /\ phase' = "done") =>
            output' = << Number(5), Number(10), Number(2) >>]_vars


\* The statements `var x = x;` of a program (the initializer is a read of the
\* declared name), each with the line of the read and whether the statement
\* is in a local scope.
RECURSIVE OwnReadsIn(_, _)
RECURSIVE OwnReadsOf(_, _)
OwnReadsIn(statements, local) ==
    UNION {OwnReadsOf(statements[i], local) : i \in DOMAIN statements}

OwnReadsOf(s, local) ==
    CASE s.t = "Var" ->
            IF IsSome(s.initializer) /\ s.initializer[1].t = "Variable"
               /\ s.initializer[1].name = s.name
            THEN {[name |-> s.name, line |-> s.initializer[1].line, local |-> local]}
            ELSE {}
      [] s.t = "Block" -> OwnReadsIn(s.statements, TRUE)
      [] s.t = "If" ->
            OwnReadsOf(s.then_branch, local)
            \cup (IF IsSome(s.else_branch) THEN OwnReadsOf(s.else_branch[1], local)
                  ELSE {})
      [] s.t = "While" -> OwnReadsOf(s.body, local)
      [] s.t = "Function" -> OwnReadsIn(s.body, TRUE)
      [] s.t = "Class" ->
            UNION {OwnReadsIn(s.methods[i].body, TRUE) : i \in DOMAIN s.methods}
      [] OTHER -> {}

\* C25: `var x = x;` is reported as "Can't read local variable in its own
\* initializer." when the statement is in a local scope (with or without an
\* outer x), and is not reported when it is at global scope.
C25_OwnInitializer ==
    [][Resolve =>
        \A r \in OwnReadsIn(Statements, FALSE) :
            Reported(r.line, r.name,
                     "Can't read local variable in its own initializer.") <=> r.local]_vars


\* The class declarations of a program whose superclass has the name of the
\* class itself.
RECURSIVE SelfInheritingIn(_)
RECURSIVE SelfInheritingOf(_)
SelfInheritingIn(statements) ==
    UNION {SelfInheritingOf(statements[i]) : i \in DOMAIN statements}

SelfInheritingOf(s) ==
    CASE s.t = "Class" ->
            (IF IsSome(s.superclass) /\ s.superclass[1].name = s.name
             THEN {[name |-> s.name, line |-> s.superclass[1].line]} ELSE {})
            \cup UNION {SelfInheritingIn(s.methods[i].body) : i \in DOMAIN s.methods}
      [] s.t = "Block" -> SelfInheritingIn(s.statements)
      [] s.t = "If" ->
            SelfInheritingOf(s.then_branch)
            \cup (IF IsSome(s.else_branch) THEN SelfInheritingOf(s.else_branch[1])
                  ELSE {})
      [] s.t = "While" -> SelfInheritingOf(s.body)
      [] s.t = "Function" -> SelfInheritingIn(s.body)
      [] OTHER -> {}

\* The superclass chain of class c ends (reaches no superclass) within n steps.
RECURSIVE ChainEnds(_, _, _)
ChainEnds(ch, c, n) ==
    IF c = 0 THEN TRUE
    ELSE IF n = 0 THEN FALSE
    ELSE ChainEnds(ch, ch[c].superclass, n - 1)

\* Class c is in the superclass chain that starts at class d (n steps at most).
RECURSIVE InChain(_, _, _, _)
InChain(ch, c, d, n) ==
    IF d = 0 \/ n = 0 THEN FALSE
    ELSE d = c \/ InChain(ch, c, ch[d].superclass, n - 1)

\* No class is in its own superclass chain and every chain ends, so
\* find_method, which walks the chain, returns.
ChainsEnd(ch) ==
    \A c \in DOMAIN ch :
        /\ ~InChain(ch, c, ch[c].superclass, Len(ch))
        /\ ChainEnds(ch, c, Len(ch))

MaxSource == 3

ScannerAlphabet == {"a", "1", ".", "\"", "\n", "/", "=", "@", NonAscii}

ScannerTexts == {"\"hello", "print \"Hello, world!\";", "(){}.,-+;*",
                 "!= == <= >= < > ! =", "var x1 = 12.5; // note\nprint x1 or true;",
                 "\"two\nlines\" 7.", "a # b \"open"}

ScannerSources ==
    UNION {[1..n -> ScannerAlphabet] : n \in 0..MaxSource}
    \cup {chars(text) : text \in ScannerTexts}

\* The interpreter when nothing is run.
Idle ==
    /\ prog = << "none", 0 >>
    /\ phase = "idle"
    /\ errors = << >>
    /\ locals = EmptyMap
    /\ envs = << >>
    /\ environment = 0
    /\ classes = << >>
    /\ instances = << >>
    /\ output = << >>
    /\ stack = << >>
    /\ ctrl = Halt
    /\ calls = << >>

ScannerInit ==
    /\ \E source \in ScannerSources : scanner = Scanner_new(source)
    /\ Idle
    /\ parser = << >>
    /\ chunk = Chunk_new
    /\ written = << >>
    /\ vm = VirtualMachine_new
    /\ loxvm = NoProcess

Scanning == scanner.pc \in {"new", "scanning"}

ScanToken ==
    /\ Scanning
    /\ ~is_at_end(scanner)
    /\ scanner' = scan_token(scanner)
    /\ UNCHANGED <<interpreter, machine, parser, chunk, written>>

ScanTokensReturn ==
    /\ Scanning
    /\ is_at_end(scanner)
    /\ scanner' = scan_tokens_return(scanner)
    /\ UNCHANGED <<interpreter, machine, parser, chunk, written>>

ScannerNext == ScanToken \/ ScanTokensReturn

ScannerSpec == ScannerInit /\ [][ScannerNext]_vars

(***************************************************************************)
(* Properties: the scanner.                                                *)
(***************************************************************************)
\* The char at which the next turn of the loop starts.
NextChar == scanner.source[scanner.current + 1]

\* No token begins with this char, and it is neither blank nor a newline.
Unexpected(c) ==
    /\ c \notin {"(", ")", "{", "}", ",", ".", "-", "+", ";", "*", "!", "=", "<", ">",
                 "/", " ", "\r", "\t", "\n", "\""}
    /\ c \notin Letters \cup {"_"}
    /\ \A d \in DOMAIN Digits : Digits[d] # c

\* The next turn starts a string that has no closing quote.
Unterminated ==
    /\ NextChar = "\""
    /\ \A i \in (scanner.current + 2)..Len(scanner.source) : scanner.source[i] # "\""

EofOnlyLast(tokens) ==
    /\ Len(tokens) > 0
    /\ \A i \in DOMAIN tokens : tokens[i].token_type = "Eof" <=> i = Len(tokens)

\* C29: for every source text scan_tokens returns (no turn of its loop
\* panics and every turn moves `current` forward, so the loop ends), with
\* exactly one Eof token, in last position; an unexpected character or an
\* unterminated string sets had_error and adds no token, and the scan goes
\* on with the rest of the text; had_error is never cleared.
C29_ScanTokens ==
    /\ [](scanner.pc # "panicked")
    /\ [][ScanToken => scanner'.current > scanner.current]_vars
    /\ [](scanner.pc = "returned" => EofOnlyLast(scanner.tokens))
    /\ [][scanner.had_error => scanner'.had_error]_vars
    /\ [][(ScanToken /\ (Unexpected(NextChar) \/ Unterminated)) =>
            /\ scanner'.had_error
            /\ scanner'.tokens = scanner.tokens
            /\ scanner'.pc = "scanning"]_vars

(***************************************************************************)
(* The parser on its own: Parser::new takes the tokens of a source text,   *)
(* and parse runs one turn of its loop `while !self.is_at_end()` per step, *)
(* then returns.                                                           *)
(***************************************************************************)
\* Source texts: at most MaxStatements of the statements below one after the
\* other, and every sequence of at most MaxTokens of the lexemes below.
MaxStatements == 2

MaxTokens == 3

ParserStatements ==
    {"x = 1;", "a.b = c;", "a.b.c = d = f(1, 2);",
     "for (var i = 0; i < 3; i = i + 1) print i;", "for (;;) a.b = c = 1;",
     "for (i = 0; ; i = i + 1) { }", "for (; i < 2;) print i;",
     "print -(1 + 2) * 3 or nil and this;", "var = ;", "1 = 2;",
     "{ var a = ; print 1; }", "fun f(a, b) { return a; }",
     "class C { m() { this.x = 1; } }"}

ParserLexemes == {"for", "(", ")", ";", "=", "a", "1", "{", "."}

\* The tokens Scanner::scan_tokens gives for each of these texts, Eof last.
ParserTokens ==
    [text \in ParserStatements \cup ParserLexemes \cup {""} |->
        scan_tokens(Scanner_new(chars(text))).tokens]

\* The tokens of a text without its Eof.
Lexed(text) == SubSeq(ParserTokens[text], 1, Len(ParserTokens[text]) - 1)

\* The tokens of at most n of the texts written one after the other on a line.
RECURSIVE ParserPrograms(_, _)
ParserPrograms(texts, n) ==
    IF n = 0 THEN {<< >>}
    ELSE {<< >>} \cup {Lexed(text) \o rest : text \in texts,
                                            rest \in ParserPrograms(texts, n - 1)}

ParserSources ==
    {tokens \o ParserTokens[""] :
        tokens \in ParserPrograms(ParserStatements, MaxStatements)
                   \cup ParserPrograms(ParserLexemes, MaxTokens)}

ParserInit ==
    /\ \E tokens \in ParserSources : parser = Parse_new(tokens)
    /\ scanner = Scanner_new(<< >>)
    /\ Idle
    /\ chunk = Chunk_new
    /\ written = << >>
    /\ vm = VirtualMachine_new
    /\ loxvm = NoProcess

ParseTurn ==
    /\ parser.pc = "parsing"
    /\ ~Parser_is_at_end(parser.p)
    /\ parser' = parse_turn(parser)
    /\ UNCHANGED <<interpreter, machine, scanner, chunk, written>>

ParseReturn ==
    /\ parser.pc = "parsing"
    /\ Parser_is_at_end(parser.p)
    /\ parser' = parse_return(parser)
    /\ UNCHANGED <<interpreter, machine, scanner, chunk, written>>

ParserNext == ParseTurn \/ ParseReturn

ParserSpec == ParserInit /\ [][ParserNext]_vars

(***************************************************************************)
(* Properties: the parser.                                                 *)
(***************************************************************************)
\* The sub-expressions an expression node holds.
Children(e) ==
    CASE e.t \in {"Literal", "Variable", "This", "Super"} -> << >>
      [] e.t \in {"Assign", "Unary"} ->
            << IF e.t = "Assign" THEN e.value ELSE e.right >>
      [] e.t \in {"Binary", "Logical"} -> << e.left, e.right >>
      [] e.t = "Call" -> << e.callee >> \o e.arguments
      [] e.t = "Get" -> << e.object >>
      [] e.t = "Set" -> << e.object, e.value >>
      [] e.t = "Grouping" -> << e.expression >>

\* Every expression node of an expression, of a sequence of expressions, of a
\* statement and of a sequence of statements: a node that is there twice is
\* twice in the sequence.
RECURSIVE Nodes(_)
RECURSIVE NodesOfAll(_)
Nodes(e) == << e >> \o NodesOfAll(Children(e))

NodesOfAll(es) == IF es = << >> THEN << >> ELSE Nodes(es[1]) \o NodesOfAll(Tail(es))

RECURSIVE NodesOfStmt(_)
RECURSIVE NodesOfStmts(_)
NodesOfStmt(s) ==
    CASE s.t \in {"Expression", "Print"} -> Nodes(s.expression)
      [] s.t = "Var" -> NodesOfAll(s.initializer)
      [] s.t = "Return" -> NodesOfAll(s.value)
      [] s.t = "Block" -> NodesOfStmts(s.statements)
      [] s.t = "If" ->
            Nodes(s.condition) \o NodesOfStmt(s.then_branch) \o NodesOfStmts(s.else_branch)
      [] s.t = "While" -> Nodes(s.condition) \o NodesOfStmt(s.body)
      [] s.t = "Function" -> NodesOfStmts(s.body)
      [] s.t = "Class" -> NodesOfStmts(s.methods)

NodesOfStmts(statements) ==
    IF statements = << >> THEN << >>
    ELSE NodesOfStmt(statements[1]) \o NodesOfStmts(Tail(statements))

\* The expression nodes of the statements parse has collected so far.
Parsed == NodesOfStmts(parser.statements)

\* C27: in the statements of one parse no two expression nodes have the same
\* id, every node's id is greater than the id of every node below it (so the
\* nodes are numbered children first), every id was handed out by the counter
\* (it is below current_id), and current_id never decreases; this holds for
\* the Assign and Set nodes that replace an assignment's target and for the
\* loop a `for` is rewritten to as for every other node.
C27_UniqueIncreasingIds ==
    /\ [](\A i, j \in DOMAIN Parsed : Parsed[i].id = Parsed[j].id => i = j)
    /\ [](\A i \in DOMAIN Parsed :
             \A below \in 2..Len(Nodes(Parsed[i])) :
                 Parsed[i].id > Nodes(Parsed[i])[below].id)
    /\ [](\A i \in DOMAIN Parsed : Parsed[i].id < parser.p.current_id)
    /\ [][parser'.p.current_id >= parser.p.current_id]_vars

\* A parse that returned Ok with the loop of a `for` without condition (the
\* literal true, the last id handed out), whose body assigns to a property
\* (Set) the value of an assignment to a variable (Assign).
C27_Witness ==
    /\ parser.pc = "returned"
    /\ ~parser.has_error
    /\ Len(parser.statements) = 2
    /\ parser.statements[1].t = "While"
    /\ parser.statements[1].condition.t = "Literal"
    /\ parser.statements[1].condition.value = Bool(TRUE)
    /\ parser.statements[1].body.t = "Expression"
    /\ parser.statements[1].condition.id > parser.statements[1].body.expression.id
    /\ parser.statements[1].body.expression.t = "Set"
    /\ parser.statements[1].body.expression.value.t = "Assign"
    /\ parser.statements[2].t = "Block"
    /\ Len(Parsed) > 10

(***************************************************************************)
(* Properties: the `for` statement.                                        *)
(***************************************************************************)
\* What `for_order` prints from the i-th turn of the loop on: the test, and
\* when it holds the body and the increment, then the next turn.
RECURSIVE ForOrderTurns(_, _)
ForOrderTurns(i, n) ==
    IF i >= n THEN << String("cond") >>
    ELSE << String("cond"), Number(i), String("incr") >> \o ForOrderTurns(i + 1, n)

\* What `for_return` prints from the i-th turn on: the body and the
\* increment, until the body returns n, which the caller prints.
RECURSIVE ForReturnTurns(_, _)
ForReturnTurns(i, n) ==
    IF i >= n THEN << Number(n), Number(n) >>
    ELSE << Number(i), String("incr") >> \o ForReturnTurns(i + 1, n)

\* The numbers from 0 to n - 1.
ForCount(n) == [i \in 1..n |-> Number(i - 1)]

\* What the program prints when it goes through.
ForExpected ==
    CASE prog[1] = "for_order" -> << String("init") >> \o ForOrderTurns(0, prog[2])
      [] prog[1] = "for_return" -> ForReturnTurns(0, prog[2])
      [] prog[1] = "for_scope" -> ForCount(prog[2]) \o << Number(7) >>
      [] prog[1] = "for_gone" -> ForCount(prog[2])

\* The statement is Block{ Var i; While(condition, Block{ body; i = ..; }) }.
ForBlock(s) ==
    /\ s.t = "Block" /\ Len(s.statements) = 2
    /\ s.statements[1].t = "Var" /\ s.statements[1].name \in {"i", "j"}
    /\ s.statements[2].t = "While"
    /\ s.statements[2].body.t = "Block" /\ Len(s.statements[2].body.statements) = 2
    /\ s.statements[2].body.statements[2].t = "Expression"
    /\ s.statements[2].body.statements[2].expression.t = "Assign"
    /\ s.statements[2].body.statements[2].expression.name = s.statements[1].name

\* C28: the parser gives for `for (init; cond; incr) body` the block of init
\* and a while loop over cond whose body is the block of body and incr, with
\* the literal true for a missing cond; run, init is evaluated once, cond
\* before every turn, incr after every body that completes and before the
\* next test; a return in the body ends the loop without incr; and the
\* variable init declares is gone after the loop (an outer variable of the
\* same name is read again, a read without one fails).
C28_ForDesugared ==
    prog[1] \in ForPrograms =>
        /\ Statements = Program_for(prog[1], prog[2])
        /\ Len(output) <= Len(ForExpected)
        /\ output = SubSeq(ForExpected, 1, Len(output))
        /\ phase = "done" => output = ForExpected
        /\ phase = "done" => prog[1] # "for_gone"
        /\ phase = "failed" => prog[1] = "for_gone"
        /\ phase \in {"resolve", "run", "done", "failed"}
        /\ phase = "failed" =>
              /\ output = ForExpected
              /\ errors = << "Undefined variable 'j'.\n[line 1]" >>
        /\ prog[1] = "for_order" =>
              /\ ForBlock(Statements[4])
              /\ Statements[4].statements[1].initializer[1].callee.name = "init"
              /\ Statements[4].statements[2].condition.callee.name = "cond"
              /\ Statements[4].statements[2].body.statements[1].t = "Print"
        /\ prog[1] = "for_return" =>
              /\ ForBlock(Statements[2].body[1])
              /\ Statements[2].body[1].statements[2].condition.t = "Literal"
              /\ Statements[2].body[1].statements[2].condition.value = Bool(TRUE)
              /\ Statements[2].body[1].statements[2].body.statements[1].t = "Block"
        /\ prog[1] \in {"for_scope", "for_gone"} =>
              /\ ForBlock(Statements[Len(Statements) - 1])
              /\ Statements[Len(Statements) - 1].statements[2].condition.operator = "Less"

\* `for_order` went twice through the loop and has ended, and `for_return`
\* has returned from the third body.
C28_Witness ==
    /\ phase = "done"
    /\ \/ /\ prog = << "for_order", 2 >>
          /\ output = << String("init"), String("cond"), Number(0), String("incr"),
                         String("cond"), Number(1), String("incr"), String("cond") >>
       \/ /\ prog = << "for_return", 2 >>
          /\ output = << Number(0), String("incr"), Number(1), String("incr"),
                         Number(2), Number(2) >>

(***************************************************************************)
(* Properties: parse and synchronize.                                      *)
(***************************************************************************)
\* Where synchronize stops: at Eof, after a `;`, or before a token that
\* starts a statement.
SynchronizeStops(p) ==
    \/ Parser_is_at_end(p)
    \/ Parser_previous(p).token_type = "Semicolon"
    \/ Parser_peek(p).token_type \in {"Class", "Fun", "Var", "For", "If", "While",
                                     "Print", "Return"}

\* s is where synchronize has to bring the Parser p: one token further at
\* least unless p is at Eof, and at the first place after that where
\* synchronize stops.
Synchronized(p, s) ==
    /\ s.tokens = p.tokens
    /\ s.current_id = p.current_id
    /\ IF Parser_is_at_end(p) THEN s.current = p.current ELSE s.current > p.current
    /\ SynchronizeStops(s)
    /\ \A i \in (p.current + 1)..(s.current - 1) :
           ~SynchronizeStops([p EXCEPT !.current = i])

\* What parse returns: the statements, or the failure.
parse_returned(ps) ==
    IF ps.has_error THEN [ok |-> FALSE, message |-> "Parsing failed with errors."]
    ELSE [ok |-> TRUE, statements |-> ps.statements]

\* synchronize from every position of the token list.
SynchronizeEverywhere ==
    \A i \in 0..(Len(parser.p.tokens) - 1) :
        LET p == [parser.p EXCEPT !.current = i]
        IN  Synchronized(p, synchronize(p))

\* One turn of the loop of parse consumes at least one token; a declaration
\* that failed is reported and followed by synchronize, one that parsed is
\* appended; has_error, once set, stays.
TurnConsumes ==
    ParseTurn =>
        LET r == Parser_declaration(parser.p)
        IN  /\ parser'.p.current > parser.p.current
            /\ parser'.pc = "parsing"
            /\ IF r.ok
               THEN /\ parser'.statements = Append(parser.statements, r.v)
                    /\ parser'.stderr = parser.stderr
                    /\ parser'.has_error = parser.has_error
               ELSE /\ parser'.statements = parser.statements
                    /\ parser'.stderr = Append(parser.stderr, r.message)
                    /\ parser'.has_error
                    /\ Synchronized(r.p, parser'.p)

\* A block that holds a failed declaration is parsed up to its `}` all the
\* same, and fails then: the error comes back after the `}`, or at Eof for
\* want of the `}`.
BlockGoesOn ==
    (parser.pc = "parsing" /\ Parser_check(parser.p, "LeftBrace")) =>
        LET r == Parser_declaration(parser.p)
        IN  ~r.ok =>
               \/ Parser_previous(r.p).token_type = "RightBrace"
               \/ /\ Parser_is_at_end(r.p)
                  /\ r.message = error_at(Parser_peek(r.p), "Expect '}' after block.")

\* parse returns at Eof, with a failure exactly when a declaration failed.
ReturnsFailure ==
    parser.pc = "returned" =>
        /\ Parser_is_at_end(parser.p)
        /\ parse_returned(parser).ok <=> (parser.stderr = << >>)

\* The Parser never leaves the token list, whose last token is Eof.
WithinTokens ==
    /\ parser.p.current < Len(parser.p.tokens)
    /\ parser.p.tokens[Len(parser.p.tokens)].token_type = "Eof"

\* C35: parse terminates on every token list that ends with Eof: every turn
\* of its loop consumes at least one token of the list and the Parser never
\* leaves the list, so the turns are fewer than the tokens; a failed
\* declaration, at top level and in a block, is followed by synchronize,
\* which consumes at least one token unless the Parser is at Eof and stops
\* at the first place that is after a `;`, before a statement keyword, or
\* Eof; and parse returns a failure whenever a declaration failed, whatever
\* parsed afterwards.
C35_ParseTerminates ==
    /\ [][TurnConsumes]_vars
    /\ [](WithinTokens /\ SynchronizeEverywhere /\ BlockGoesOn /\ ReturnsFailure)

\* parse has returned a failure for `var = ;` followed by `x = 1;`:
\* synchronize stopped after the `;`, and the second statement parsed.
C35_Witness ==
    /\ parser.pc = "returned"
    /\ parser.p.tokens = Lexed("var = ;") \o Lexed("x = 1;") \o ParserTokens[""]
    /\ Len(parser.stderr) = 1
    /\ Len(parser.statements) = 1
    /\ ~parse_returned(parser).ok

\* parse has returned from a block with a failed declaration in it: the one
\* error is the declaration's, and the whole block was consumed.
C35_BlockWitness ==
    /\ parser.pc = "returned"
    /\ parser.p.tokens = Lexed("{ var a = ; print 1; }") \o ParserTokens[""]
    /\ Len(parser.stderr) = 1
    /\ parser.statements = << >>

(***************************************************************************)
(* The Chunk on its own: any calls of write_op_code, write and             *)
(* add_constant on a new Chunk, at most MaxCalls of them.                  *)
(***************************************************************************)
MaxCalls == 3

ChunkBytes == {0, 255}

ChunkLines == {1, 2}

ChunkValues == {1, 2}

ChunkInit ==
    /\ chunk = Chunk_new
    /\ written = << >>
    /\ vm = VirtualMachine_new
    /\ loxvm = NoProcess
    /\ Idle
    /\ scanner = Scanner_new(<< >>)
    /\ parser = << >>

WriteOpCode ==
    /\ Len(written) < MaxCalls
    /\ \E op_code \in DOMAIN OpCode, line \in ChunkLines :
          /\ chunk' = write_op_code(chunk, op_code, line)
          /\ written' = Append(written, [call |-> "write", byte |-> OpCode[op_code],
                                         line |-> line])
    /\ UNCHANGED <<interpreter, machine, scanner, parser>>

Write ==
    /\ Len(written) < MaxCalls
    /\ \E byte \in ChunkBytes, line \in ChunkLines :
          /\ chunk' = write(chunk, byte, line)
          /\ written' = Append(written, [call |-> "write", byte |-> byte, line |-> line])
    /\ UNCHANGED <<interpreter, machine, scanner, parser>>

AddConstant ==
    /\ Len(written) < MaxCalls
    /\ \E value \in ChunkValues :
          /\ chunk' = add_constant(chunk, value).chunk
          /\ written' = Append(written, [call |-> "add_constant", value |-> value,
                                         returned |-> add_constant(chunk, value).returned])
    /\ UNCHANGED <<interpreter, machine, scanner, parser>>

ChunkNext == WriteOpCode \/ Write \/ AddConstant

ChunkSpec == ChunkInit /\ [][ChunkNext]_vars

(***************************************************************************)
(* Properties: the Chunk.                                                  *)
(***************************************************************************)
\* The calls that wrote a byte, in their order.
RECURSIVE Writes(_)
Writes(called) ==
    IF called = << >> THEN << >>
    ELSE IF called[1].call = "write" THEN << called[1] >> \o Writes(Tail(called))
    ELSE Writes(Tail(called))

\* C30: after any calls, lines has one entry per byte of code, the i-th byte
\* and the i-th line are the byte and the line of the i-th writing call (so
\* add_constant has changed neither), and the index each add_constant
\* returned is where its value is in constants.
C30_OneLinePerByte ==
    /\ Len(chunk.lines) = Len(chunk.code)
    /\ Len(chunk.code) = Len(Writes(written))
    /\ \A i \in DOMAIN chunk.code :
          /\ chunk.code[i] = Writes(written)[i].byte
          /\ chunk.lines[i] = Writes(written)[i].line
    /\ \A i \in DOMAIN written :
          written[i].call = "add_constant" =>
              /\ written[i].returned + 1 \in DOMAIN chunk.constants
              /\ chunk.constants[written[i].returned + 1] = written[i].value

\* A constant was added between two writes at different lines.
C30_Witness ==
    /\ Len(written) = 3
    /\ written[1].call = "write" /\ written[1].byte = OpCode.Constant
    /\ written[2].call = "add_constant" /\ written[2].returned = 0
    /\ written[3].call = "write" /\ written[3].line # written[1].line
    /\ chunk.lines = << written[1].line, written[3].line >>

(***************************************************************************)
(* Properties: the driver.                                                 *)
(***************************************************************************)
\* What Resolver::resolve_stmts gives for the statements the parser returned.
DriverResolved == resolve_stmts(Resolver_new(EmptyMap), parser.statements)

\* The scanner, the parser or the resolver reports an error for the file.
StaticErrors == scanner.had_error \/ parser.has_error \/ ~IsOk(DriverResolved)

\* C21: once the driver has read a file, an error of the scanner, the parser
\* or the resolver means that nothing is evaluated (no output) and the run
\* returns 65; without one the statements are evaluated, and the run returns
\* 70 when the evaluation fails and 0 when it ends.
C21_StagesGate ==
    (prog[1] = "run_file" /\ phase \notin {"file", "io_error"}) =>
        /\ StaticErrors =>
              /\ phase = "static_error"
              /\ output = << >>
              /\ run_returns = EXIT_CODE_DATA_ERROR
        /\ ~StaticErrors =>
              /\ phase \in {"run", "done", "failed"}
              /\ phase = "failed" =>
                    errors # << >> /\ run_returns = EXIT_CODE_SCRIPT_ERROR
              /\ phase = "done" => errors = << >> /\ run_returns = EXIT_CODE_OK

(***************************************************************************)
(* Properties: the class declaration.                                      *)
(***************************************************************************)
\* The value the superclass variable of the class statement at hand has in
\* the current state, before the statement has changed anything.
ClassSuper ==
    lookup_variable(ctrl.s.superclass[1].name, ctrl.s.superclass[1].id)

\* The superclass of the class statement at hand is there and is a class.
ClassSuperIsClass ==
    /\ ~ClassSuper.panic
    /\ IsSome(ClassSuper.value)
    /\ ClassSuper.value[1].k = "class"

\* What a class statement that went through leaves behind: the current
\* environment is the one the statement started in, the name is bound in it
\* to the new class, and with a superclass one more environment exists, which
\* binds `super`, encloses the current one and is captured by the methods.
ClassDeclared ==
    LET s == ctrl.s
        has_super == IsSome(s.superclass)
        class == Len(classes) + 1
    IN  /\ environment' = environment
        /\ Len(classes') = class
        /\ classes'[class].name = s.name
        /\ classes'[class].superclass =
               (IF has_super THEN ClassSuper.value[1].ref ELSE 0)
        /\ s.name \in DOMAIN envs'[environment].values
        /\ envs'[environment].values[s.name] = Class(class)
        /\ IF has_super
           THEN /\ Len(envs') = Len(envs) + 1
                /\ envs'[Len(envs')].enclosing = environment
                /\ envs'[Len(envs')].values = Put(EmptyMap, "super", ClassSuper.value[1])
                /\ \A name \in DOMAIN classes'[class].methods :
                       classes'[class].methods[name].closure = Len(envs')
           ELSE /\ Len(envs') = Len(envs)
                /\ \A name \in DOMAIN classes'[class].methods :
                       classes'[class].methods[name].closure = environment
        /\ ctrl' = ResultNone

\* C33 as stated: a class declaration first defines the name as nil in the
\* current scope and then evaluates the superclass, so a declaration whose
\* superclass is not a class fails with `Superclass must be a class` and
\* leaves the name defined as nil; otherwise the name is bound to the class
\* after the `super` environment has been left.
C33_NameDefinedFirst ==
    [][(Entering("exec", "Class") /\ phase' # "panic") =>
          LET s == ctrl.s
          IN  IF IsSome(s.superclass) /\ ~ClassSuperIsClass
              THEN /\ ctrl'.m = "error"
                   /\ s.name \in DOMAIN envs'[environment].values
                   /\ envs'[environment].values[s.name] = Nil
              ELSE ClassDeclared]_vars

\* C33 as the code has it: a class declaration evaluates the superclass
\* first; if that is undefined or not a class the statement fails (with
\* `Superclass must be a class` for a value that is not a class) and has
\* defined nothing; only then is the name defined, and it is bound to the
\* class by assignment after the `super` environment has been left.
C33_ClassDeclaration ==
    [][(Entering("exec", "Class") /\ phase' # "panic") =>
          LET s == ctrl.s
          IN  IF IsSome(s.superclass) /\ ~ClassSuperIsClass
              THEN /\ ctrl' = (IF IsSome(ClassSuper.value)
                               THEN Error(format_line("Superclass must be a class.",
                                                      s.superclass[1].line))
                               ELSE Error(format_lexeme("Undefined variable",
                                                        s.superclass[1].name,
                                                        s.superclass[1].line)))
                   /\ UNCHANGED <<envs, classes, environment>>
              ELSE ClassDeclared]_vars

\* The declaration `class D < NotAClass { }` in a block, NotAClass being a
\* number, has failed, and no environment has the name D.
C33_Witness ==
    /\ prog[1] = "bad_super"
    /\ ctrl = Error(format_line("Superclass must be a class.", 2))
    /\ \A e \in 1..Len(envs) : "D" \notin DOMAIN envs[e].values

\* A class with a superclass has been declared: the `super` environment
\* exists and the current environment is the one of the declaration again.
C33_Declared ==
    /\ prog[1] = "inherit"
    /\ ctrl = ResultNone
    /\ \E c \in 1..Len(classes) : classes[c].superclass # 0
    /\ \E e \in 1..Len(envs) : "super" \in DOMAIN envs[e].values
    /\ environment = globals

(***************************************************************************)
(* The prompt with the resolver: every line read is scanned, parsed by its *)
(* own Parser, resolved into the side-table of the one Interpreter and     *)
(* executed on it.  The input of a session is                              *)
(* <<"resolved", the results of read_line so far>>.                        *)
(***************************************************************************)
\* The lines of these sessions.  In each of the first four the expression
\* with id 1 is a variable reference: `a` one scope above the reference, the
\* global `x`, `c` of the body of f one scope above, `b` two scopes above.
ResolvedLines == {"{ var a = 1; { print a; } }\n", "var x = 5; print x;\n",
                  "fun f() { var c = 1; { return c; } }\n",
                  "{ var b = 2; { { print b; } } }\n", "print f();\n",
                  "var = ;\n", "\n"}

ResolvedReadLine == {ReadOk(input) : input \in ResolvedLines} \cup {ReadErr}

\* One turn of the loop of the prompt: read a line; leave the loop on a read
\* error or an empty line; go on with the next line when the line does not
\* parse; resolve the statements into Interpreter.locals, and execute them
\* when the resolver returned Ok.
run_resolved ==
    /\ prog[1] = "resolved"
    /\ phase \in {"prompt", "done", "failed", "static_error"}
    /\ Len(prog[2]) < MaxLines
    /\ \E read \in ResolvedReadLine :
          /\ prog' = << "resolved", Append(prog[2], read) >>
          /\ IF run_prompt_break(read)
             THEN /\ phase' = "exit"
                  /\ errors' = IF read.ok THEN << >> ELSE << "Error reading input" >>
                  /\ stack' = << >>
                  /\ ctrl' = Halt
                  /\ locals' = locals
             ELSE LET parse_result == Parser_parse(read.input)
                      statements == parse_result.statements
                      r == resolve_stmts(Resolver_new(locals), statements)
                  IN  IF ~parse_result.ok
                      THEN /\ phase' = "prompt"
                           /\ errors' = << >>
                           /\ stack' = << >>
                           /\ ctrl' = Halt
                           /\ locals' = locals
                      ELSE IF ~IsOk(r)
                      THEN /\ phase' = "static_error"
                           /\ errors' = r.err
                           /\ stack' = << >>
                           /\ ctrl' = Halt
                           /\ locals' = r.st.locals
                      ELSE /\ phase' = IF Len(statements) = 0 THEN "prompt" ELSE "run"
                           /\ errors' = << >>
                           /\ stack' = IF Len(statements) = 0 THEN << >>
                                       ELSE << [f |-> "execute",
                                                statements |-> statements, i |-> 1] >>
                           /\ ctrl' = IF Len(statements) = 0 THEN Halt
                                      ELSE Exec(statements[1])
                           /\ locals' = r.st.locals
    /\ UNCHANGED <<standalone, envs, environment, classes, instances, output, calls>>

ResolvedInit ==
    /\ prog = << "resolved", << >> >>
    /\ phase = "prompt"
    /\ errors = << >>
    /\ locals = EmptyMap
    /\ envs = << [enclosing |-> 0, values |-> Put(EmptyMap, "clock", DynamicFunction)] >>
    /\ environment = globals
    /\ classes = << >>
    /\ instances = << >>
    /\ output = << >>
    /\ stack = << >>
    /\ ctrl = Halt
    /\ calls = << >>
    /\ scanner = Scanner_new(<< >>)
    /\ parser = << >>
    /\ chunk = Chunk_new
    /\ written = << >>
    /\ vm = VirtualMachine_new
    /\ loxvm = NoProcess

\* The prompt and the steps of the Interpreter that the statements and
\* expressions of ResolvedLines take.
ResolvedNext ==
    \/ run_resolved
    \/ execute_next
    \/ execute_fail
    \/ propagate_error
    \/ execute_block_enter
    \/ execute_block_next
    \/ execute_block_error
    \/ exec_Function
    \/ exec_Return
    \/ exec_Return_done
    \/ exec_Print
    \/ exec_Print_done
    \/ exec_Var
    \/ exec_Var_done
    \/ eval_Literal
    \/ eval_Variable
    \/ eval_Call
    \/ call_callee
    \/ call_Function
    \/ LoxFunction_call_done

ResolvedSpec == ResolvedInit /\ [][ResolvedNext]_vars

(***************************************************************************)
(* Properties: one Interpreter for successive inputs.                      *)
(***************************************************************************)
\* The names the lines of the sessions only ever use as global variables.
ResolvedGlobals == {"x", "f"}

\* A reference to a defined global variable is looked up in globals.
GlobalLookedUpInGlobals ==
    (/\ Entering("eval", "Variable")
     /\ ctrl.e.name \in ResolvedGlobals
     /\ ctrl.e.name \in DOMAIN envs[globals].values) =>
        lookup_variable(ctrl.e.name, ctrl.e.id) =
            [panic |-> FALSE, value |-> Some(envs[globals].values[ctrl.e.name])]

\* The reference to `c` in the body of f, resolved one scope above it when f
\* was declared, is evaluated with that depth and gives the value of `c`.
BodyKeepsDepth ==
    (Entering("eval", "Variable") /\ ctrl.e.name = "c") =>
        /\ ctrl.e.id \in DOMAIN locals
        /\ locals[ctrl.e.id] = 1
        /\ lookup_variable(ctrl.e.name, ctrl.e.id) =
               [panic |-> FALSE, value |-> Some(Number(1))]

\* C34: with one Interpreter for successive inputs, each parsed by its own
\* Parser and resolved into the same side-table, no depth recorded for an
\* expression of one input is applied to an expression of another: nothing
\* panics, a reference to a defined global variable is looked up in globals,
\* and the body of a function declared by an earlier input is evaluated with
\* the depths recorded for it.
C34_DepthsPerInput ==
    /\ phase # "panic"
    /\ GlobalLookedUpInGlobals
    /\ BodyKeepsDepth

(***************************************************************************)
(* The bytecode VM on its own.  A session is run_prompt of loxvm's main.rs *)
(* reading at most MaxVmLines lines, each compiled and run on the one      *)
(* VirtualMachine; a test is VirtualMachine::run on a chunk written by     *)
(* hand, as the tests of virtualmachine.rs do.  loxvm is                   *)
(*   pc       "prompt" | "run" | "exit" | "returned" (a test) | "panic"    *)
(*   read     how many times read_line was called                          *)
(*   source   the trimmed line that was compiled last ("" in a test)       *)
(*   stdout   what the run of that line has written, a value per line      *)
(*   stderr   what the last turn of run_prompt has written                 *)
(*   trace    the offsets of the instructions that run has executed        *)
(*   results  what interpret or run returned, one entry per call           *)
(*   panic    the message of the panic that aborted the process            *)
(***************************************************************************)
\* The most lines one session reads.
MaxVmLines == 2

\* The number literals of the sources are those of 0..MaxNumber.
MaxNumber == 2

\* The longest code of a chunk written by hand.
MaxCode == 3

VmNumbers == 0..MaxNumber

VmOperators == {"!=", "==", ">=", "<=", ">", "<", "+", "-", "*", "/"}

\* `a op b` for every operator and all numbers.
BinarySources ==
    {ToString(a) \o " " \o op \o " " \o ToString(b) :
        a \in VmNumbers, b \in VmNumbers, op \in VmOperators}

\* `a op b op c` for the operators that are not associative.
ChainSources ==
    {ToString(a) \o " " \o op \o " " \o ToString(b) \o " " \o op \o " " \o ToString(c) :
        a \in VmNumbers, b \in VmNumbers, c \in VmNumbers, op \in {"-", "/"}}

\* Unary operators, grouping, the literals, mixed precedence, NaN.
MixedSources ==
    {"1", "nil", "true", "false", "-1", "--2", "!nil", "!true", "!0", "!!false",
     "(1)", "(1 - 2) - 2", "1 - (2 - 2)", "-(1 + 2) * 2", "2 * (1 + 2)",
     "2 + 1 * 2", "2 * 1 + 2", "2 - 1 * 2", "2 / 1 - 2", "-2 - -1", "1 - -1",
     "nil == nil", "true == false", "true != false", "nil == false", "1 == true",
     "1 < 2 == true", "!(1 < 2)", "1 + 2 < 2 * 2",
     "0 / 0 >= 1", "0 / 0 <= 1", "0 / 0 == 1", "0 / 0 != 1", "0 / 0 == 0 / 0", "0 / 0 != 0 / 0",
     "1 / 0 > 2",
     "  1 + 2  "}

\* Operands of the wrong type.
TypeErrorSources ==
    {"-true", "-nil", "1 + nil", "nil + 1", "true < 1", "1 > false", "nil * 2",
     "2 / true", "-(1 < 2)", "true - false"}

\* Texts that are not one expression.
MalformedSources == {"1 +", ")", "(1", "a", "1 2", "\"s\"", "+ 1", "1 = 2", "()"}

WellFormedSources ==
    BinarySources \cup ChainSources \cup MixedSources \cup TypeErrorSources

VmSources == WellFormedSources \cup MalformedSources

\* What Scanner::scan_tokens gives for each trimmed source.
VmTokens ==
    [source \in {trim(text) : text \in VmSources} |->
        scan_tokens(Scanner_new(chars(source))).tokens]

\* What read_line can give: a source with its newline, an empty line, an
\* I/O error.
VmReadLine ==
    {ReadOk(text \o "\n") : text \in VmSources} \cup {ReadOk("\n"), ReadErr}

\* The bytes of the chunks written by hand: five opcodes, of which 0 is
\* also the index of the one constant, and a byte that is no opcode.
TestBytes ==
    {DesignOpCode.Constant, DesignOpCode.Nil, DesignOpCode.Add, DesignOpCode.Negate,
     DesignOpCode.Return, 200}

RECURSIVE TestCode(_, _)
TestCode(c, code) ==
    IF code = << >> THEN c ELSE TestCode(write(c, code[1], 1), Tail(code))

TestChunks ==
    {TestCode(add_constant(Chunk_new, Number(7)).chunk, code) :
        code \in UNION {[1..n -> TestBytes] : n \in 1..MaxCode}}

VmInit ==
    /\ Idle
    /\ scanner = Scanner_new(<< >>)
    /\ parser = << >>
    /\ chunk = Chunk_new
    /\ written = << >>
    /\ \/ /\ vm = VirtualMachine_new
          /\ loxvm = [NoProcess EXCEPT !.pc = "prompt"]
       \/ /\ vm \in {[VirtualMachine_new EXCEPT !.chunk = c] : c \in TestChunks}
          /\ loxvm = [NoProcess EXCEPT !.pc = "run"]

\* One turn of the loop of run_prompt, up to the call of run in interpret:
\* a read error is reported and the next line is read; an empty line ends
\* the loop; otherwise the line is compiled and the VM is given the chunk.
VmPrompt ==
    /\ loxvm.pc = "prompt"
    /\ loxvm.read < MaxVmLines
    /\ \E read \in VmReadLine :
          IF ~read.ok
          THEN /\ loxvm' = [loxvm EXCEPT !.read = @ + 1,
                                         !.stderr = << "Error reading input" >>]
               /\ vm' = vm
          ELSE IF trim(read.input) = ""
          THEN /\ loxvm' = [loxvm EXCEPT !.read = @ + 1, !.pc = "exit",
                                         !.stderr = << >>]
               /\ vm' = vm
          ELSE IF IsSome(compile(VmTokens[trim(read.input)]).panic)
          THEN /\ loxvm' = [loxvm EXCEPT !.read = @ + 1, !.pc = "panic",
                                         !.stderr = << >>,
                                         !.panic = compile(VmTokens[trim(read.input)]).panic]
               /\ vm' = vm
          ELSE /\ loxvm' = [loxvm EXCEPT !.read = @ + 1, !.source = trim(read.input), !.pc = "run",
                                         !.stdout = << >>, !.stderr = << >>,
                                         !.trace = << >>]
               /\ vm' = interpret(vm, compile(VmTokens[trim(read.input)]))
    /\ UNCHANGED <<interpreter, scanner, parser, chunk, written>>

\* Where the process is after a turn of run went the given way.
after_run(p, turn) ==
    CASE turn.how = "loop" -> p
      [] turn.how = "Ok" ->
            [p EXCEPT !.pc = IF p.read = 0 THEN "returned" ELSE "prompt",
                      !.results = Append(@, "Ok")]
      [] turn.how = "Err" ->
            [p EXCEPT !.pc = IF p.read = 0 THEN "returned" ELSE "prompt",
                      !.results = Append(@, "Err"),
                      !.stderr = IF p.read = 0 THEN @
                                 ELSE << "Runtime error: " \o turn.message >>]
      [] turn.how = "panic" -> [p EXCEPT !.pc = "panic", !.panic = Some(turn.message)]

\* One turn of the loop of VirtualMachine::run, or its end.
VmRun ==
    /\ loxvm.pc = "run"
    /\ vm' = VM_run_turn(vm).vm
    /\ loxvm' = after_run([loxvm EXCEPT
                              !.stdout = @ \o VM_run_turn(vm).written,
                              !.trace = IF vm.ip < Len(vm.chunk.code)
                                        THEN Append(@, vm.ip) ELSE @],
                          VM_run_turn(vm))
    /\ UNCHANGED <<interpreter, scanner, parser, chunk, written>>

VmNext == VmPrompt \/ VmRun

VmSpec == VmInit /\ [][VmNext]_vars

(***************************************************************************)
(* The tree-walking evaluator on expressions without variables and calls:  *)
(* Interpreter::literal, unary and binary of interpreter.rs, with the f64  *)
(* operators.  The result is [ok, value] or [ok, message].                 *)
(***************************************************************************)
OkValue(v) == [ok |-> TRUE, value |-> v]

RuntimeError(message) == [ok |-> FALSE, message |-> message]

Interpreter_unary(operator, line, right) ==
    CASE operator = "Bang" -> OkValue(Bool(~is_true(right)))
      [] operator = "Minus" ->
            IF right.k = "num" THEN OkValue(f64_neg(right))
            ELSE RuntimeError(format_line("Operand must be a number.", line))
      [] OTHER -> RuntimeError("Invalid operator")

Interpreter_binary(operator, line, left, right) ==
    LET numbers == left.k = "num" /\ right.k = "num"
        Numbers(v) == IF numbers THEN OkValue(v)
                      ELSE RuntimeError(format_line("Operands must be numbers.", line))
        same == CASE left.k = "nil" /\ right.k = "nil" -> TRUE
                  [] left.k = "bool" /\ right.k = "bool" -> left.b = right.b
                  [] numbers -> f64_eq(left, right)
                  [] left.k = "str" /\ right.k = "str" -> left.s = right.s
                  [] OTHER -> FALSE
        differ == CASE left.k = "nil" /\ right.k = "nil" -> FALSE
                    [] left.k = "bool" /\ right.k = "bool" -> left.b # right.b
                    [] numbers -> ~f64_eq(left, right)
                    [] left.k = "str" /\ right.k = "str" -> left.s # right.s
                    [] OTHER -> TRUE
    IN  CASE operator = "Minus" -> Numbers(IF numbers THEN f64_sub(left, right) ELSE Nil)
          [] operator = "Slash" -> Numbers(IF numbers THEN f64_div(left, right) ELSE Nil)
          [] operator = "Star" -> Numbers(IF numbers THEN f64_mul(left, right) ELSE Nil)
          [] operator = "Plus" ->
                IF numbers THEN OkValue(f64_add(left, right))
                ELSE IF left.k = "str" /\ right.k = "str"
                THEN OkValue(String(left.s \o right.s))
                ELSE RuntimeError(format_line(
                         "Operands must be two numbers or two strings.", line))
          [] operator = "Greater" ->
                Numbers(IF numbers THEN Bool(f64_gt(left, right)) ELSE Nil)
          [] operator = "GreaterEqual" ->
                Numbers(IF numbers THEN Bool(f64_ge(left, right)) ELSE Nil)
          [] operator = "Less" ->
                Numbers(IF numbers THEN Bool(f64_lt(left, right)) ELSE Nil)
          [] operator = "LessEqual" ->
                Numbers(IF numbers THEN Bool(f64_le(left, right)) ELSE Nil)
          [] operator = "BangEqual" -> OkValue(Bool(differ))
          [] operator = "EqualEqual" -> OkValue(Bool(same))
          [] OTHER -> RuntimeError("Invalid operator.")

\* Interpreter::expression for Literal, Grouping, Unary and Binary; the
\* operands of a Binary are evaluated left first, and an error of an operand
\* is the result (`?`).
RECURSIVE Interpreter_expression(_)
Interpreter_operands(e, left, right) ==
    IF ~left.ok THEN left
    ELSE IF ~right.ok THEN right
    ELSE Interpreter_binary(e.operator, e.line, left.value, right.value)

Interpreter_operand(e, right) ==
    IF ~right.ok THEN right ELSE Interpreter_unary(e.operator, e.line, right.value)

Interpreter_expression(e) ==
    CASE e.t = "Literal" -> OkValue(e.value)
      [] e.t = "Grouping" -> Interpreter_expression(e.expression)
      [] e.t = "Unary" -> Interpreter_operand(e, Interpreter_expression(e.right))
      [] e.t = "Binary" ->
            Interpreter_operands(e, Interpreter_expression(e.left),
                                 Interpreter_expression(e.right))

\* What the tree-walking interpreter prints for `print <source>;`: the value
\* of the expression its parser makes of the tokens.
TreeWalked(source) ==
    LET tree == expression(Parser_new(VmTokens[source]))
    IN  IF tree.ok THEN Interpreter_expression(tree.v)
        ELSE RuntimeError(tree.message)

(***************************************************************************)
(* Properties: the bytecode VM.                                            *)
(***************************************************************************)
\* The VM is about to execute the instruction `opcode`.
AtInstruction(opcode) ==
    /\ loxvm.pc = "run"
    /\ vm.ip < Len(vm.chunk.code)
    /\ vm.chunk.code[vm.ip + 1] = DesignOpCode[opcode]

\* C31: the turn of run that executes Return pops the top of the stack and
\* writes that value as one line, or writes nothing when the stack is empty;
\* either way run returns Ok with it; and no instruction is executed after a
\* Return: the Return is the last offset of the trace of the run.
C31_ReturnStops ==
    /\ [][AtInstruction("Return") =>
            /\ loxvm'.pc \in {"prompt", "returned"}
            /\ loxvm'.results = Append(loxvm.results, "Ok")
            /\ loxvm'.trace = Append(loxvm.trace, vm.ip)
            /\ vm'.ip = vm.ip + 1
            /\ vm'.chunk = vm.chunk
            /\ IF vm.stack = << >>
               THEN vm'.stack = << >> /\ loxvm'.stdout = loxvm.stdout
               ELSE /\ vm'.stack = SubSeq(vm.stack, 1, Len(vm.stack) - 1)
                    /\ loxvm'.stdout = Append(loxvm.stdout, vm.stack[Len(vm.stack)])]_vars
    /\ [](\A i \in 1..(Len(loxvm.trace) - 1) :
             vm.chunk.code[loxvm.trace[i] + 1] # DesignOpCode.Return)

\* The chunk Nil, Return, Nil has returned: nil was written, the stack is
\* empty and the instruction after the Return was not executed.
C31_Witness ==
    /\ loxvm.pc = "returned"
    /\ vm.chunk.code = << DesignOpCode.Nil, DesignOpCode.Return, DesignOpCode.Nil >>
    /\ loxvm.trace = << 0, 1 >>
    /\ loxvm.stdout = << Nil >>
    /\ loxvm.results = << "Ok" >>
    /\ vm.stack = << >>
    /\ vm.ip = 2

\* The text `a op b`.
BinaryText(a, op, b) == ToString(a) \o " " \o op \o " " \o ToString(b)

\* What `left op right` is for two numbers.
BinaryValue(left, op, right) ==
    CASE op = "!=" -> Bool(~f64_eq(left, right))
      [] op = "==" -> Bool(f64_eq(left, right))
      [] op = ">=" -> Bool(f64_ge(left, right))
      [] op = "<=" -> Bool(f64_le(left, right))
      [] op = ">" -> Bool(f64_gt(left, right))
      [] op = "<" -> Bool(f64_lt(left, right))
      [] op = "+" -> f64_add(left, right)
      [] op = "-" -> f64_sub(left, right)
      [] op = "*" -> f64_mul(left, right)
      [] op = "/" -> f64_div(left, right)

\* interpret has returned from the line `source`.
Interpreted(source) ==
    /\ loxvm.pc = "prompt"
    /\ loxvm.source = source
    /\ loxvm.results # << >>

\* C32: for all numbers a and b and every binary operator, the run of the
\* code compiled from `a op b` writes the value of a op b, a being the
\* operand pushed first: a # b, a >= b and a <= b for the operators
\* compiled to two opcodes, and (first pushed) op (last pushed) for
\* arithmetic; likewise when the left operand is the number 0 / 0.
C32_ComparisonPairs ==
    /\ \A a \in VmNumbers, b \in VmNumbers, op \in VmOperators :
          Interpreted(BinaryText(a, op, b)) =>
              loxvm.stdout = << BinaryValue(Number(a), op, Number(b)) >>
    /\ \A op \in {">=", "<=", "!=", "=="} :
          Interpreted("0 / 0 " \o op \o " 1") =>
              loxvm.stdout = << BinaryValue(f64_div(Number(0), Number(0)), op, Number(1)) >>

\* C32 for the operands that are not NaN: the number literals.
C32_ComparisonPairsOfOrdered ==
    \A a \in VmNumbers, b \in VmNumbers, op \in VmOperators :
        Interpreted(BinaryText(a, op, b)) =>
            loxvm.stdout = << BinaryValue(Number(a), op, Number(b)) >>

\* The sources made of number literals, unary minus, grouping and + - * /.
IsArithmetic(source) ==
    \A i \in 1..(Len(VmTokens[source]) - 1) :
        VmTokens[source][i].token_type \in
            {"Number", "Minus", "Plus", "Star", "Slash", "LeftParen", "RightParen"}

\* The sources in which a binary operator follows the right operand of
\* another of the same precedence: `a - b - c` and `a / b / c`.
IsChain(source) ==
    \E a \in VmNumbers, b \in VmNumbers, c \in VmNumbers, op \in {"-", "/"} :
        source = BinaryText(a, op, b) \o " " \o op \o " " \o ToString(c)

\* C36: binary operators of equal precedence associate to the left in the
\* bytecode compiler as in the tree-walking parser: for every source over
\* number literals, unary minus, grouping and + - * /, among them
\* `a - b - c` for all numbers a, b, c, the VM writes the value the
\* tree-walking evaluator prints.
C36_LeftAssociative ==
    (Interpreted(loxvm.source) /\ IsArithmetic(loxvm.source)) =>
        /\ TreeWalked(loxvm.source).ok
        /\ loxvm.stdout = << TreeWalked(loxvm.source).value >>

\* C36 for the sources that are not such chains.
C36_WithoutChains ==
    (Interpreted(loxvm.source) /\ IsArithmetic(loxvm.source) /\ ~IsChain(loxvm.source)) =>
        /\ TreeWalked(loxvm.source).ok
        /\ loxvm.stdout = << TreeWalked(loxvm.source).value >>

\* For comparison: the tree-walking evaluator gives (a - b) - c and
\* (a / b) / c for the chains.
TreeWalkedChains ==
    \A a \in VmNumbers, b \in VmNumbers, c \in VmNumbers, op \in {"-", "/"} :
        TreeWalked(BinaryText(a, op, b) \o " " \o op \o " " \o ToString(c)) =
            OkValue(BinaryValue(BinaryValue(Number(a), op, Number(b)), op, Number(c)))

\* The trimmed sources that are one expression.
WellFormedTrimmed == {trim(text) : text \in WellFormedSources}

\* The VM of a session runs the chunk compiled from a well-formed source.
RunsWellFormed ==
    /\ loxvm.pc = "run"
    /\ loxvm.read >= 1
    /\ loxvm.source \in WellFormedTrimmed

\* C37: while the VM runs the chunk compiled from a well-formed expression,
\* no turn pops from an empty stack or reads code or constants out of bounds
\* (the only panic is that of an operand that is not a number), run does not
\* fall off the end of the code, exactly one value is on the stack when
\* Return executes, and the stack is empty when interpret has returned: the
\* VM of a session has an empty stack whenever the next line is read.
C37_StackDiscipline ==
    /\ [][RunsWellFormed =>
            /\ vm.ip < Len(vm.chunk.code)
            /\ loxvm'.pc = "panic" => loxvm'.panic = Some(NotANumber)
            /\ AtInstruction("Return") =>
                  /\ Len(vm.stack) = 1
                  /\ vm'.stack = << >>
                  /\ loxvm'.pc = "prompt"]_vars
    /\ []((loxvm.read >= 1 /\ loxvm.pc \in {"prompt", "exit"}) => vm.stack = << >>)

\* The second line of a session, `-(1 + 2) * 2`, has been run on the VM that
\* ran the first: -6 is written and the stack is empty.
C37_Witness ==
    /\ loxvm.pc = "prompt"
    /\ loxvm.read = 2
    /\ loxvm.source = "-(1 + 2) * 2"
    /\ loxvm.results = << "Ok", "Ok" >>
    /\ loxvm.stdout = << Number(-6) >>
    /\ vm.stack = << >>

\* The VM of a session is about to execute Negate on a value that is not a
\* number, or an arithmetic or comparison instruction on two values of
\* which one is not a number.
OperandTypeError ==
    /\ loxvm.read >= 1
    /\ \/ /\ AtInstruction("Negate")
          /\ Len(vm.stack) >= 1
          /\ VM_top(vm).k # "num"
       \/ /\ \E op \in {"Greater", "Less", "Add", "Subtract", "Multiply", "Divide"} :
                AtInstruction(op)
          /\ Len(vm.stack) >= 2
          /\ (VM_top(vm).k # "num" \/ VM_top(VM_popped(vm)).k # "num")

\* C38: an operand of the wrong type makes interpret return a runtime error
\* to run_prompt, which reports it and reads the next line; the process is
\* not aborted.
C38_TypeErrorReported ==
    [][OperandTypeError =>
          /\ loxvm'.pc = "prompt"
          /\ loxvm'.results = Append(loxvm.results, "Err")
          /\ loxvm'.stderr # << >>]_vars

\* The process has been aborted by the operand nil of `1 + nil`.
TypeErrorAborts ==
    /\ loxvm.source = "1 + nil"
    /\ loxvm.pc = "panic"
    /\ loxvm.panic = Some(NotANumber)
    /\ loxvm.results = << >>

====
